---- MODULE Spec2Model ----
(***************************************************************************)
(* Model of the logic-bearing parts of the trading-newsletter site:        *)
(*   - checkRateLimit and its process-wide rateLimitStore (chat route),    *)
(*   - withRetry (api-helpers),                                            *)
(*   - parseCombinedIdeas and the GET handlers of the ideas feed,          *)
(*   - POST /api/chat, POST /api/ideas/saved, POST /api/watchlist,         *)
(*   - the handlers of AuthProvider.                                       *)
(* Each part has its own specification over the shared variables; the      *)
(* variables of the other parts stay at their initial values.              *)
(***************************************************************************)
EXTENDS Integers, Sequences, FiniteSets, TLC

VARIABLES
    \* ---- rate limiter (src/src/app/api/chat/route.ts)
    rateLimitStore,   \* Map<userId, {count, resetTime}>
    now,              \* Date.now(), in ms
    ticks,            \* number of clock advances so far (bounds the clock)
    rlResult,         \* what the last checkRateLimit call returned, and to whom, when
    rlWindow,         \* observer: per identity, the window its calls fall in
    \* ---- withRetry (src/src/lib/api-helpers.ts)
    rpc,              \* position of the running withRetry invocation
    maxRetries, delayMs, operationName,   \* its arguments
    attempt,          \* loop counter `attempt`
    lastError,        \* local `lastError`
    retryOutcome,     \* what the invocation returned or threw
    opLog,            \* observer: outcome of every operation() call of this invocation
    waited,           \* observer: the setTimeout delays awaited by this invocation
    invocations,      \* number of withRetry invocations started
    \* ---- ideas feed (src/unnamed/part_010, GET of the full feed)
    generated_ideas,  \* rows of the table, in the order the query returns them
    fetched,          \* `ideas` as the handler got it from withRetry (or null)
    response,         \* the handler's HTTP response
    \* ---- POST /api/chat (src/src/app/api/chat/route.ts)
    requests,         \* per request in flight: its position, locals, effects, response
    \* ---- handlers that wrap a storage call in withRetry
    route,            \* the handler that started the running withRetry invocation
    httpResponse,     \* what that handler answered
    \* ---- POST /api/ideas/saved (src/src/app/api/ideas/saved/route.ts)
    interactions,     \* number of 'saved' rows of the one (user, idea) pair
    saves,            \* per request in flight: its position, attempt, effects, response
    \* ---- POST /api/watchlist (src/src/app/api/watchlist/route.ts)
    watchlist,        \* `tickers` of the user's existing watchlist row
    adds,             \* per request in flight: its position, ticker, the row it read, response
    \* ---- AuthProvider (src/src/contexts/AuthContext.tsx)
    user,             \* state `user`: null or the signed-in user
    profile,          \* state `profile`: null or the profile of a user
    session,          \* state `session`
    loading,          \* state `loading`
    handlers,         \* position of every handler of the provider
    initTimeoutId,    \* whether the initialisation timeout is armed
    authEvents        \* number of auth events and calls so far

rateVars == <<rateLimitStore, now, ticks, rlResult, rlWindow>>
retryVars == <<rpc, maxRetries, delayMs, operationName, attempt, lastError,
               retryOutcome, opLog, waited, invocations>>
ideaVars == <<generated_ideas, fetched, response>>
chatVars == <<requests>>
fetchVars == <<route, httpResponse>>
saveVars == <<interactions, saves>>
watchVars == <<watchlist, adds>>
authVars == <<user, profile, session, loading, handlers, initTimeoutId, authEvents>>
vars == <<rateVars, retryVars, ideaVars, chatVars, fetchVars, saveVars, watchVars, authVars>>

(***************************************************************************)
(* Rate limiter                                                            *)
(***************************************************************************)
Users == {"u1", "u2"}

maxRequests == 10
windowMs == 60 * 1000

\* Clock advances: the smallest step and a whole window.
MaxTicks == 3
TickSteps == {1, windowMs}

\* Calls observed per identity and window are capped at maxRequests + MaxOver.
MaxOver == 2

NoCall == [userId |-> "none"]
NoWindow == [start |-> 0, calls |-> 0, allowed |-> 0]

RateInit ==
    /\ rateLimitStore = [u \in {} |-> 0]
    /\ now = 0
    /\ ticks = 0
    /\ rlResult = NoCall
    /\ rlWindow = [u \in Users |-> NoWindow]

\* rateLimitStore.set(userId, entry)
StoreSetMutOnly(store, userId, entry) == [x \in {userId} |-> entry]
StoreSet(store, userId, entry) ==
    [x \in (DOMAIN store) \cup {userId} |-> IF x = userId THEN entry ELSE store[x]]

\* if (!userLimit || now > userLimit.resetTime)
WindowExpired(store, userId, t) ==
    userId \notin DOMAIN store \/ t > store[userId].resetTime

\* if (userLimit.count >= RATE_LIMIT.maxRequests)
LimitReachedMutGT(entry) == entry.count > maxRequests
LimitReached(entry) == entry.count >= maxRequests

\* The entry written when a window is opened.
FreshEntryMutKeep(store, userId, t) ==
    [count |-> 1,
     resetTime |-> IF userId \in DOMAIN store THEN store[userId].resetTime
                   ELSE t + windowMs]
FreshEntryMutZero(store, userId, t) == [count |-> 0, resetTime |-> t + windowMs]
FreshEntry(store, userId, t) == [count |-> 1, resetTime |-> t + windowMs]

\* The store after checkRateLimit(userId) at time t.
StoreAfterCheckMutLostUpdate(store, userId, t) ==
    IF WindowExpired(store, userId, t)
    THEN StoreSet(store, userId, FreshEntry(store, userId, t))
    ELSE store
StoreAfterCheckMutExtend(store, userId, t) ==
    IF WindowExpired(store, userId, t)
    THEN StoreSet(store, userId, FreshEntry(store, userId, t))
    ELSE IF LimitReached(store[userId])
         THEN [store EXCEPT ![userId].resetTime = t + windowMs]
         ELSE [store EXCEPT ![userId].count = @ + 1]
StoreAfterCheck(store, userId, t) ==
    IF WindowExpired(store, userId, t)
    THEN StoreSet(store, userId, FreshEntry(store, userId, t))
    ELSE IF LimitReached(store[userId])
         THEN store
         ELSE [store EXCEPT ![userId].count = @ + 1]

\* The value checkRateLimit(userId) returns at time t.
CheckResult(store, userId, t) ==
    IF WindowExpired(store, userId, t)
    THEN [allowed |-> TRUE]
    ELSE IF LimitReached(store[userId])
         THEN [allowed |-> FALSE, resetTime |-> store[userId].resetTime]
         ELSE [allowed |-> TRUE]

\* Observer of the fixed windows: a window opens with the first call of an
\* identity and with the first call later than windowMs after the opening one.
WindowAfterCall(w, t, allowed) ==
    IF w.calls = 0 \/ t > w.start + windowMs
    THEN [start |-> t, calls |-> 1, allowed |-> IF allowed THEN 1 ELSE 0]
    ELSE [start |-> w.start, calls |-> w.calls + 1,
          allowed |-> w.allowed + (IF allowed THEN 1 ELSE 0)]

CallInWindow(w, t) == w.calls > 0 /\ t <= w.start + windowMs

\* One call of checkRateLimit(userId): the function is synchronous, it reads
\* the entry and writes it back without yielding to the event loop.
CheckRateLimitCall(userId) ==
    /\ CallInWindow(rlWindow[userId], now) => rlWindow[userId].calls < maxRequests + MaxOver
    /\ LET res == CheckResult(rateLimitStore, userId, now) IN
        /\ rateLimitStore' = StoreAfterCheck(rateLimitStore, userId, now)
        /\ rlResult' = [userId |-> userId, at |-> now, result |-> res,
                        before |-> rateLimitStore]
        /\ rlWindow' = [rlWindow EXCEPT
                           ![userId] = WindowAfterCall(@, now, res.allowed)]
    /\ UNCHANGED <<now, ticks>>

checkRateLimit(userId) ==
    /\ CheckRateLimitCall(userId)
    /\ UNCHANGED <<retryVars, ideaVars, chatVars, fetchVars, saveVars, watchVars, authVars>>

\* Time passes between requests.
Tick(d) ==
    /\ ticks < MaxTicks
    /\ now' = now + d
    /\ ticks' = ticks + 1
    /\ UNCHANGED <<rateLimitStore, rlResult, rlWindow>>
    /\ UNCHANGED <<retryVars, ideaVars, chatVars, fetchVars, saveVars, watchVars, authVars>>

RateNext ==
    \/ \E u \in Users : checkRateLimit(u)
    \/ \E d \in TickSteps : Tick(d)

(***************************************************************************)
(* withRetry                                                               *)
(***************************************************************************)
\* Arguments the callers pass: maxRetries 0..MaxAttempts, and two delays.
MaxAttempts == 3
MaxInvocations == 2
DelayChoices == {100, 1000}
OperationNames == {"Fetch all trading ideas", "Fetch saved ideas"}

\* What operation() can do: resolve with a value, or reject with an Error
\* object or with a value that is no Error (a string).
OpValues == {"rows-a", "rows-b"}
\* A message is the sequence of the parts it is made of.
OpMessages == {<<"Database error: ", "timeout">>, <<"fetch failed">>}
OpThrown == [isError : BOOLEAN, message : OpMessages]

\* let lastError: Error | null = null
null == [isError |-> FALSE, message |-> <<>>]

\* error instanceof Error ? error : new Error(String(error))
AsError(e) == IF e.isError THEN e ELSE [isError |-> TRUE, message |-> e.message]

\* new Error(`${operationName} failed after ${maxRetries} attempts`)
NumberText(n) ==
    CASE n = 0 -> "0" [] n = 1 -> "1" [] n = 2 -> "2" [] n = 3 -> "3" [] OTHER -> "4"
ExhaustedError(name, n) ==
    [isError |-> TRUE, message |-> <<name, " failed after ", NumberText(n), " attempts">>]

\* throw lastError || new Error(...)
ThrownValueMutAlwaysNamed(err, name, n) == ExhaustedError(name, n)
ThrownValue(err, name, n) == IF err # null THEN err ELSE ExhaustedError(name, n)

\* delayMs * Math.pow(2, attempt - 1)
BackoffDelayMutFixed(d, k) == d
BackoffDelay(d, k) == d * 2^(k - 1)

\* if (attempt === maxRetries) ... break
LastAttemptMutEarly(k, n) == k >= n - 1
LastAttempt(k, n) == k = n

\* The value of `attempt` when the body of withRetry starts.
FirstAttemptMutCarry(previous) == IF previous > 1 THEN previous ELSE 1
FirstAttempt(previous) == 1

RetryInit ==
    /\ rpc = "idle"
    /\ maxRetries = 0
    /\ delayMs = 0
    /\ operationName = "none"
    /\ attempt = 0
    /\ lastError = null
    /\ retryOutcome = [kind |-> "none"]
    /\ opLog = <<>>
    /\ waited = <<>>
    /\ invocations = 0

\* Entry of withRetry(operation, n, d, name): fresh locals, then the loop test.
WithRetryCall(n, d, name) ==
    /\ rpc \in {"idle", "returned", "thrown"}
    /\ invocations < MaxInvocations
    /\ invocations' = invocations + 1
    /\ maxRetries' = n
    /\ delayMs' = d
    /\ operationName' = name
    /\ lastError' = null
    /\ attempt' = FirstAttempt(attempt)
    /\ opLog' = <<>>
    /\ waited' = <<>>
    /\ IF attempt' <= n
       THEN rpc' = "operation" /\ retryOutcome' = [kind |-> "none"]
       ELSE \* the loop body never runs: throw lastError || new Error(...)
            /\ rpc' = "thrown"
            /\ retryOutcome' = [kind |-> "thrown", error |-> ThrownValue(null, name, n)]

withRetry(n, d, name) ==
    /\ WithRetryCall(n, d, name)
    /\ UNCHANGED <<rateVars, ideaVars, chatVars, fetchVars, saveVars, watchVars, authVars>>

\* await operation() resolves: return result
OperationResolves(v) ==
    /\ rpc = "operation"
    /\ opLog' = Append(opLog, [ok |-> TRUE, value |-> v])
    /\ rpc' = "returned"
    /\ retryOutcome' = [kind |-> "returned", value |-> v]
    /\ UNCHANGED <<maxRetries, delayMs, operationName, attempt, lastError,
                   waited, invocations>>
    /\ UNCHANGED <<rateVars, ideaVars, chatVars, fetchVars, saveVars, watchVars, authVars>>

\* await operation() rejects: the catch block
OperationRejects(e) ==
    /\ rpc = "operation"
    /\ opLog' = Append(opLog, [ok |-> FALSE, thrown |-> e])
    /\ lastError' = AsError(e)
    /\ IF LastAttempt(attempt, maxRetries)
       THEN \* break; throw lastError || ...
            /\ rpc' = "thrown"
            /\ retryOutcome' = [kind |-> "thrown",
                                 error |-> ThrownValue(lastError', operationName, maxRetries)]
            /\ waited' = waited
       ELSE /\ rpc' = "backoff"
            /\ waited' = Append(waited, BackoffDelay(delayMs, attempt))
            /\ retryOutcome' = retryOutcome
    /\ UNCHANGED <<maxRetries, delayMs, operationName, attempt, invocations>>
    /\ UNCHANGED <<rateVars, ideaVars, chatVars, fetchVars, saveVars, watchVars, authVars>>

\* The setTimeout of the backoff fires: attempt++, then the loop test.
BackoffElapsed ==
    /\ rpc = "backoff"
    /\ attempt' = attempt + 1
    /\ IF attempt' <= maxRetries
       THEN rpc' = "operation" /\ retryOutcome' = retryOutcome
       ELSE /\ rpc' = "thrown"
            /\ retryOutcome' = [kind |-> "thrown",
                                 error |-> ThrownValue(lastError, operationName, maxRetries)]
    /\ UNCHANGED <<maxRetries, delayMs, operationName, lastError, opLog,
                   waited, invocations>>
    /\ UNCHANGED <<rateVars, ideaVars, chatVars, fetchVars, saveVars, watchVars, authVars>>

RetryNext ==
    \/ \E n \in 0..MaxAttempts, d \in DelayChoices, name \in OperationNames :
           withRetry(n, d, name)
    \/ \E v \in OpValues : OperationResolves(v)
    \/ \E e \in OpThrown : OperationRejects(e)
    \/ BackoffElapsed


(***************************************************************************)
(* Ideas feed: text of a row                                               *)
(*                                                                         *)
(* A text is kept as what split('---') and split('\n') make of it: a       *)
(* sequence of fragments, each a sequence of lines.  A line is classified  *)
(* by the tests the code applies to it.                                    *)
(***************************************************************************)
\* A null field: no text at all (a text has at least one fragment).
NullText == <<>>

\* "IDEA <num> - <text>"
ThemeLine(n, t) == [kind |-> "theme", num |-> n, text |-> t, len |-> 20]
\* a line that holds "IDEA <num>" but not the " - <theme>" part
MarkerLine(n) == [kind |-> "marker", num |-> n, text |-> "IDEA", len |-> 6]
\* narrative text
TextLine(t) == [kind |-> "text", num |-> 0, text |-> t, len |-> 16]
\* only uppercase letters, commas and whitespace; len is its trimmed length
CapsLine(t, l) == [kind |-> "caps", num |-> 0, text |-> t, len |-> l]
\* empty, or whitespace only
BlankLine == [kind |-> "blank", num |-> 0, text |-> "", len |-> 0]

\* trimmedLine.length > 50
TickerLineMaxLen == 50

\* str.includes('---'): split('---') yields more than one fragment
IncludesDelimiter(text) == Len(text) > 1

\* str.includes('IDEA 1')
IncludesIdea1(text) ==
    \E f \in 1..Len(text) : \E l \in 1..Len(text[f]) :
        text[f][l].kind \in {"theme", "marker"} /\ text[f][l].num = 1

\* part.trim(), on lines: leading and trailing blank lines go
RECURSIVE DropLeadingBlank(_)
DropLeadingBlank(ls) ==
    IF ls = <<>> THEN <<>>
    ELSE IF Head(ls).kind = "blank" THEN DropLeadingBlank(Tail(ls))
    ELSE ls

RECURSIVE DropTrailingBlank(_)
DropTrailingBlank(ls) ==
    IF ls = <<>> THEN <<>>
    ELSE IF ls[Len(ls)].kind = "blank" THEN DropTrailingBlank(SubSeq(ls, 1, Len(ls) - 1))
    ELSE ls

TrimLines(ls) == DropTrailingBlank(DropLeadingBlank(ls))

\* trimmedPart.match(/^IDEA\s+\d+\s*-\s*(.+?)$/m): the index of the first line
\* that matches, 0 when none does.  The rows considered keep the whole
\* "IDEA <n> - <theme>" on one line, so a match never runs over a line end.
ThemeMatch(ls) ==
    IF \E i \in 1..Len(ls) : ls[i].kind = "theme"
    THEN CHOOSE i \in 1..Len(ls) :
             /\ ls[i].kind = "theme"
             /\ \A j \in 1..(i - 1) : ls[j].kind # "theme"
    ELSE 0

\* lines.slice(1)
ContentLinesMutSkipTwo(ls) == IF Len(ls) < 2 THEN <<>> ELSE Tail(Tail(ls))
ContentLines(ls) == IF ls = <<>> THEN <<>> ELSE Tail(ls)

\* the filter callback: drop blank lines and lines that look like ticker lists
KeepLine(line) ==
    /\ line.kind # "blank"
    /\ (line.kind # "caps" \/ line.len > TickerLineMaxLen)

\* contentLines.filter(...)
AnalysisLines(ls) == SelectSeq(ls, KeepLine)

(***************************************************************************)
(* The tickers field: a sequence of groups (split('---')), each a sequence *)
(* of tokens: "," , whitespace (" " or "\n") and symbols.                  *)
(***************************************************************************)
IsSpace(tok) == tok \in {" ", "\n"}

\* s.trim()
RECURSIVE DropLeadingSpace(_)
DropLeadingSpace(g) ==
    IF g = <<>> THEN <<>>
    ELSE IF IsSpace(Head(g)) THEN DropLeadingSpace(Tail(g))
    ELSE g

RECURSIVE DropTrailingSpace(_)
DropTrailingSpace(g) ==
    IF g = <<>> THEN <<>>
    ELSE IF IsSpace(g[Len(g)]) THEN DropTrailingSpace(SubSeq(g, 1, Len(g) - 1))
    ELSE g

TrimTokens(g) == DropTrailingSpace(DropLeadingSpace(g))

\* s.replace(/^,\s*/, '')
StripLeadingComma(g) ==
    IF g # <<>> /\ Head(g) = "," THEN DropLeadingSpace(Tail(g)) ELSE g

\* s.replace(/\s+/g, ' ')
RECURSIVE CollapseSpace(_)
CollapseSpace(g) ==
    IF g = <<>> THEN <<>>
    ELSE IF IsSpace(Head(g))
         THEN <<" ">> \o CollapseSpace(DropLeadingSpace(g))
         ELSE <<Head(g)>> \o CollapseSpace(Tail(g))

\* tickerGroups[index]?.trim() || '', then the two replaces and the trim
TickerGroup(groups, index) ==
    LET raw == IF index + 1 <= Len(groups) THEN TrimTokens(groups[index + 1]) ELSE <<>>
    IN  TrimTokens(CollapseSpace(StripLeadingComma(raw)))


(***************************************************************************)
(* Ideas feed: parseCombinedIdeas and the GET handler                      *)
(***************************************************************************)
\* new Date(created_at).getTime(), in seconds
DateGetTime(created_at) ==
    CASE created_at = "2025-01-01T06:00:00Z" -> 1735711200
      [] created_at = "2025-01-02T06:00:00Z" -> 1735797600
      [] OTHER -> 0

\* The text an emitted idea carries in `analysis`: the kept lines joined by '\n'.
JoinLines(ls) == <<ls>>

\* The callback of analysisParts.forEach for fragment `index` (zero-based):
\* the ideas it pushes, none or one.
EmitIdeaMutNoBodyTest(theme, body) == theme # ""
EmitIdea(theme, body) == theme # "" /\ body # <<>>

IdeaIdMutSame(id, index) == id
IdeaId(id, index) == id + index

ParseFragment(row, index) ==
    LET trimmedPart == TrimLines(row.analysis[index + 1])
        m == ThemeMatch(trimmedPart)
        theme == trimmedPart[m].text
        analysisLines == AnalysisLines(ContentLines(trimmedPart))
        tickerGroup == TickerGroup(row.tickers, index)
    IN  IF trimmedPart = <<>> THEN <<>>
        ELSE IF m = 0 THEN <<>>
        ELSE IF EmitIdea(theme, analysisLines)
             THEN << [id |-> IdeaId(row.id, index),
                      created_at |-> row.created_at,
                      theme |-> theme,
                      analysis |-> JoinLines(analysisLines),
                      tickers |-> <<tickerGroup>>] >>
             ELSE <<>>

RECURSIVE ParseFrom(_, _)
ParseFrom(row, index) ==
    IF index >= Len(row.analysis) THEN <<>>
    ELSE ParseFragment(row, index) \o ParseFrom(row, index + 1)

parseCombinedIdeas(row) == ParseFrom(row, 0)

\* tickers.split('---') on a null tickers field raises a TypeError.
ParseThrows(row) == row.tickers = NullText

\* idea.analysis && idea.analysis.includes('IDEA 1') && idea.analysis.includes('---')
IsCombinedMutAnyDelimited(row) ==
    row.analysis # NullText /\ IncludesDelimiter(row.analysis)
IsCombined(row) ==
    /\ row.analysis # NullText
    /\ IncludesIdea1(row.analysis)
    /\ IncludesDelimiter(row.analysis)

\* ideas.some(...)
hasCombinedFormat(ideas) == \E i \in 1..Len(ideas) : IsCombined(ideas[i])

\* the forEach of the combined branch: what it pushes, row by row
ParseRowsMutFirstOnly(ideas) ==
    IF hasCombinedFormat(ideas)
    THEN parseCombinedIdeas(ideas[CHOOSE i \in 1..Len(ideas) :
             IsCombined(ideas[i]) /\ \A j \in 1..(i - 1) : ~IsCombined(ideas[j])])
    ELSE <<>>
RECURSIVE ParseRowsMutKeepSingles(_)
ParseRowsMutKeepSingles(ideas) ==
    IF ideas = <<>> THEN <<>>
    ELSE (IF IsCombined(Head(ideas)) THEN parseCombinedIdeas(Head(ideas))
          ELSE <<Head(ideas)>>)
         \o ParseRowsMutKeepSingles(Tail(ideas))
RECURSIVE ParseRows(_)
ParseRows(ideas) ==
    IF ideas = <<>> THEN <<>>
    ELSE (IF IsCombined(Head(ideas)) THEN parseCombinedIdeas(Head(ideas)) ELSE <<>>)
         \o ParseRows(Tail(ideas))

\* whether the forEach raises on some row it parses
RowsThrow(ideas) ==
    \E i \in 1..Len(ideas) : IsCombined(ideas[i]) /\ ParseThrows(ideas[i])

\* processedIdeas.sort((a, b) => getTime(b) - getTime(a)): Array.prototype.sort
\* is stable; an element goes after those that are not older than it.
RECURSIVE InsertByDate(_, _)
InsertByDate(x, sorted) ==
    IF sorted = <<>> THEN <<x>>
    ELSE IF DateGetTime(Head(sorted).created_at) >= DateGetTime(x.created_at)
         THEN <<Head(sorted)>> \o InsertByDate(x, Tail(sorted))
         ELSE <<x>> \o sorted

SortByCreatedAtDescMutNone(ideas) == ideas
RECURSIVE SortByCreatedAtDesc(_)
SortByCreatedAtDesc(ideas) ==
    IF ideas = <<>> THEN <<>>
    ELSE InsertByDate(ideas[Len(ideas)],
                      SortByCreatedAtDesc(SubSeq(ideas, 1, Len(ideas) - 1)))


\* The hardcoded mockIdeas of the handler (ids 1..6, newest first).
MockIdea(id, theme, symbol, created_at) ==
    [id |-> id, created_at |-> created_at, theme |-> theme,
     analysis |-> << <<TextLine(theme)>> >>,
     tickers |-> << <<symbol>> >>]

mockIdeas ==
    << MockIdea(1, "Tech Sector Momentum", "AAPL", "now"),
       MockIdea(2, "EV Market Volatility", "TSLA", "now - 1h"),
       MockIdea(3, "Financial Sector Rotation", "JPM", "now - 2h"),
       MockIdea(4, "Healthcare Innovation", "JNJ", "now - 1d"),
       MockIdea(5, "Energy Transition", "ENPH", "now - 2d"),
       MockIdea(6, "Consumer Discretionary Weakness", "AMZN", "now - 3d") >>

\* `ideas`: null, or the array of rows the query returned
NullRows == [isNull |-> TRUE, rows |-> <<>>]
Rows(rows) == [isNull |-> FALSE, rows |-> rows]

\* if (!ideas || ideas.length === 0)
NoIdeas(ideas) == ideas.isNull \/ Len(ideas.rows) = 0

\* apiSuccess(data, message) and apiError(error, 500, details, code)
apiSuccess(data, source) == [status |-> 200, source |-> source, data |-> data]
apiError(status, code) == [status |-> status, source |-> code, data |-> <<>>]

\* The body of GET after the fetch: `ideas` is the rows, or null.
ProcessedIdeas(ideas) ==
    IF hasCombinedFormat(ideas) THEN ParseRows(ideas) ELSE ideas

Respond(ideas) ==
    IF NoIdeas(ideas) THEN apiSuccess(mockIdeas, "mock")
    ELSE IF hasCombinedFormat(ideas.rows) /\ RowsThrow(ideas.rows)
         THEN apiError(500, "FETCH_ALL_IDEAS_ERROR")
         ELSE apiSuccess(SortByCreatedAtDesc(ProcessedIdeas(ideas.rows)), "database")

\* ideas.find(...) of the preview route: the first row in the bulk format
FirstCombined(ideas) ==
    ideas[CHOOSE i \in 1..Len(ideas) :
              IsCombined(ideas[i]) /\ \A j \in 1..(i - 1) : ~IsCombined(ideas[j])]

\* .limit(10) of the preview route's query and slice(0, 3) of its result
PreviewLimit == 10
PreviewSize == 3
Slice(s, n) == SubSeq(s, 1, IF Len(s) < n THEN Len(s) ELSE n)

\* The three hardcoded ideas of the preview route (the first three themes of
\* the full feed's list).
previewMockIdeas == Slice(mockIdeas, 3)

\* The body of the preview route's GET after the fetch: only the first bulk
\* row is parsed, nothing is sorted, at most three ideas are returned.
PreviewIdeas(ideas) ==
    IF hasCombinedFormat(ideas) THEN parseCombinedIdeas(FirstCombined(ideas)) ELSE ideas

RespondPreview(ideas) ==
    IF NoIdeas(ideas) THEN apiSuccess(previewMockIdeas, "preview-mock")
    ELSE IF hasCombinedFormat(ideas.rows) /\ ParseThrows(FirstCombined(ideas.rows))
         THEN apiError(500, "FETCH_IDEAS_ERROR")
         ELSE apiSuccess(Slice(PreviewIdeas(ideas.rows), PreviewSize), "preview")

\* parseCombinedIdeas of src/app/api/ideas/route.ts: the same function, but
\* the ticker group is only trimmed (tickerGroups[index]?.trim() || '').
TrimmedTickerGroup(groups, index) ==
    IF index + 1 <= Len(groups) THEN TrimTokens(groups[index + 1]) ELSE <<>>

TrimmedParseFragment(row, index) ==
    LET parsed == ParseFragment(row, index)
    IN  IF parsed = <<>> THEN <<>>
        ELSE << [parsed[1] EXCEPT !.tickers = <<TrimmedTickerGroup(row.tickers, index)>>] >>

RECURSIVE TrimmedParseFrom(_, _)
TrimmedParseFrom(row, index) ==
    IF index >= Len(row.analysis) THEN <<>>
    ELSE TrimmedParseFragment(row, index) \o TrimmedParseFrom(row, index + 1)

\* The body of GET of src/app/api/ideas/route.ts after the fetch: the first
\* bulk row only, no sort, three ideas at most, no envelope code on failure.
RespondIdeas(ideas) ==
    IF NoIdeas(ideas) THEN apiSuccess(previewMockIdeas, "ideas-mock")
    ELSE IF hasCombinedFormat(ideas.rows) /\ ParseThrows(FirstCombined(ideas.rows))
         THEN apiError(500, "ideas-error")
         ELSE apiSuccess(Slice(IF hasCombinedFormat(ideas.rows)
                               THEN TrimmedParseFrom(FirstCombined(ideas.rows), 0)
                               ELSE ideas.rows, PreviewSize), "ideas")

(***************************************************************************)
(* The rows the generation job can have written                            *)
(***************************************************************************)
MaxRows == 2
FirstRowId == 100

Timestamps == {"2025-01-01T06:00:00Z", "2025-01-02T06:00:00Z"}

\* "IDEA 1 - Tech Momentum\nStrong breakout.\n---\nIDEA 2 - EV Weakness\nMixed signals."
SampleAnalysis ==
    << <<ThemeLine(1, "Tech Momentum"), TextLine("Strong breakout."), BlankLine>>,
       <<BlankLine, ThemeLine(2, "EV Weakness"), TextLine("Mixed signals.")>> >>

\* three blocks; the second has only a ticker line under its theme line
ThreeBlockAnalysis ==
    << <<ThemeLine(1, "Tech Momentum"), TextLine("Strong breakout."), BlankLine>>,
       <<BlankLine, ThemeLine(2, "EV Weakness"), CapsLine("TSLA, RIVN", 10), BlankLine>>,
       <<BlankLine, ThemeLine(3, "Banks"), CapsLine("LONG CAPS", 60), TextLine("Rates help.")>> >>

\* "IDEA 1" and "---" are there, but no fragment has a theme line
NoThemeAnalysis ==
    << <<MarkerLine(1), TextLine("Strong breakout."), BlankLine>>,
       <<BlankLine, TextLine("Mixed signals.")>> >>

\* every fragment has a theme line, none has a body left after filtering
NoBodyAnalysis ==
    << <<ThemeLine(1, "Tech Momentum"), CapsLine("AAPL, NVDA", 10), BlankLine>>,
       <<BlankLine, ThemeLine(2, "EV Weakness")>> >>

\* the theme line is not the first line of its fragment
LateThemeAnalysis ==
    << <<TextLine("Overview."), ThemeLine(1, "Tech Momentum"), TextLine("Strong breakout."), BlankLine>>,
       <<BlankLine>> >>

\* single-idea rows: plain narrative, with and without a "---" in it
PlainAnalysis == << <<TextLine("Banks benefit from rates.")>> >>
DelimitedPlainAnalysis == << <<TextLine("Part one."), BlankLine>>, <<BlankLine, TextLine("Part two.")>> >>

RowTexts ==
    { [theme |-> "Daily ideas", analysis |-> SampleAnalysis],
      [theme |-> "Daily ideas", analysis |-> ThreeBlockAnalysis],
      [theme |-> "Daily ideas", analysis |-> NoThemeAnalysis],
      [theme |-> "Daily ideas", analysis |-> NoBodyAnalysis],
      [theme |-> "Daily ideas", analysis |-> LateThemeAnalysis],
      [theme |-> "Financial Sector Rotation", analysis |-> PlainAnalysis],
      [theme |-> "", analysis |-> DelimitedPlainAnalysis],
      [theme |-> "Energy Transition", analysis |-> NullText] }

\* "AAPL, NVDA\n---\n,TSLA, RIVN"
SampleTickers ==
    << <<"AAPL", ",", " ", "NVDA", "\n">>,
       <<"\n", ",", "TSLA", ",", " ", "RIVN">> >>
\* " ,AAPL,  MSFT ---\n---\n, JPM\nGS"
MessyTickers ==
    << <<" ", ",", "AAPL", ",", " ", " ", "MSFT", " ">>,
       <<"\n">>,
       <<"\n", ",", " ", "JPM", "\n", "GS">> >>

TickerTexts == {SampleTickers, MessyTickers, NullText}

\* No request has been answered yet.
NoResponse == [status |-> 0, source |-> "none", data |-> <<>>]

IdeasInit ==
    /\ generated_ideas = <<>>
    /\ fetched = NullRows
    /\ response = NoResponse

\* The generation job inserts a row; ids are the table's serial key.  The
\* response of the request served before it has been sent and is gone.
InsertRow(created_at, text, tickers) ==
    /\ Len(generated_ideas) < MaxRows
    /\ generated_ideas' = Append(generated_ideas,
           [id |-> FirstRowId + Len(generated_ideas),
            created_at |-> created_at,
            theme |-> text.theme,
            analysis |-> text.analysis,
            tickers |-> tickers])
    /\ fetched' = NullRows
    /\ response' = NoResponse
    /\ UNCHANGED <<rateVars, retryVars, chatVars, fetchVars, saveVars, watchVars, authVars>>

QueryResultsMutUnordered ==
    LET n == Len(generated_ideas)
        perms == {p \in [1..n -> 1..n] : \A i, j \in 1..n : i # j => p[i] # p[j]}
    IN  {[i \in 1..n |-> generated_ideas[p[i]]] : p \in perms}
\* .order('created_at', { ascending: false }): the rows, newest first, rows of
\* equal created_at in any order
QueryResults ==
    LET n == Len(generated_ideas)
        perms == {p \in [1..n -> 1..n] : \A i, j \in 1..n : i # j => p[i] # p[j]}
        ordered(p) == \A i \in 1..(n - 1) :
            DateGetTime(generated_ideas[p[i]].created_at)
                >= DateGetTime(generated_ideas[p[i + 1]].created_at)
    IN  {[i \in 1..n |-> generated_ideas[p[i]]] : p \in {q \in perms : ordered(q)}}

\* GET of the full feed, the fetch succeeding (possibly after retries).  One
\* request is followed per content of the table.
GET ==
    /\ response = NoResponse
    /\ \E data \in QueryResults :
        /\ fetched' = Rows(data)
        /\ response' = Respond(Rows(data))
    /\ UNCHANGED generated_ideas
    /\ UNCHANGED <<rateVars, retryVars, chatVars, fetchVars, saveVars, watchVars, authVars>>

\* GET of the full feed, every attempt of the fetch failing: withRetry throws,
\* the handler logs it and goes on with ideas = null.
GETFetchFails ==
    /\ response = NoResponse
    /\ fetched' = NullRows
    /\ response' = Respond(NullRows)
    /\ UNCHANGED generated_ideas
    /\ UNCHANGED <<rateVars, retryVars, chatVars, fetchVars, saveVars, watchVars, authVars>>

\* GET of the preview route, the fetch succeeding: the newest rows, ten at most.
GETPreview ==
    /\ response = NoResponse
    /\ \E data \in QueryResults :
        /\ fetched' = Rows(Slice(data, PreviewLimit))
        /\ response' = RespondPreview(Rows(Slice(data, PreviewLimit)))
    /\ UNCHANGED generated_ideas
    /\ UNCHANGED <<rateVars, retryVars, chatVars, fetchVars, saveVars, watchVars, authVars>>

\* GET of src/app/api/ideas/route.ts, the fetch succeeding.
GETIdeas ==
    /\ response = NoResponse
    /\ \E data \in QueryResults :
        /\ fetched' = Rows(Slice(data, PreviewLimit))
        /\ response' = RespondIdeas(Rows(Slice(data, PreviewLimit)))
    /\ UNCHANGED generated_ideas
    /\ UNCHANGED <<rateVars, retryVars, chatVars, fetchVars, saveVars, watchVars, authVars>>

IdeasNext ==
    \/ \E t \in Timestamps, text \in RowTexts, tk \in TickerTexts : InsertRow(t, text, tk)
    \/ GET
    \/ GETFetchFails
    \/ GETPreview
    \/ GETIdeas

(***************************************************************************)
(* Response envelopes (src/src/lib/api-helpers.ts)                         *)
(***************************************************************************)
\* Values passed as `details`; undefined and null are falsy.
Undefined == [kind |-> "undefined"]
JsonNull == [kind |-> "null"]
Truthy(details) == details.kind \notin {"undefined", "null"}

\* No `code` argument (undefined).
NoCode == ""

\* apiError(error, status, details, code): { error }, with `details` and
\* `code` set only when the argument is truthy.  `keys` are the fields of the
\* JSON body.
apiErrorEnvelopeMutDropCode(error, status, details, code) ==
    [status |-> status,
     keys |-> {"error"} \cup (IF Truthy(details) THEN {"details"} ELSE {}),
     error |-> error,
     details |-> IF Truthy(details) THEN details ELSE Undefined,
     code |-> NoCode, message |-> ""]
apiErrorEnvelope(error, status, details, code) ==
    [status |-> status,
     keys |-> {"error"} \cup (IF Truthy(details) THEN {"details"} ELSE {})
                        \cup (IF code # NoCode THEN {"code"} ELSE {}),
     error |-> error,
     details |-> IF Truthy(details) THEN details ELSE Undefined,
     code |-> code, message |-> ""]

\* apiSuccess(data, message)
apiSuccessEnvelope(message) ==
    [status |-> 200, keys |-> {"data", "message"}, error |-> "",
     details |-> Undefined, code |-> NoCode, message |-> message]

NoHttpResponse ==
    [status |-> 0, keys |-> {}, error |-> "", details |-> Undefined, code |-> NoCode,
     message |-> ""]

(***************************************************************************)
(* POST /api/chat (src/src/app/api/chat/route.ts)                          *)
(***************************************************************************)
\* The requests followed at the same time, and the identity they come from.
Requests == {"r1", "r2"}
ChatUsers == {"u1"}

\* Message contents are sequences of tokens (words and white space).
Hello == <<"hello">>
PaddedHello == <<" ", "hello", "\n">>
Blank == <<" ">>
ResearchTicker == <<"research", " ", "THE", " ", "AAPL">>
ResearchName == <<"research", " ", "apple">>
KeywordOnly == <<"growth">>

Message(role, content) == [role |-> role, content |-> content]

\* Parsed JSON values: whether the value is an object, whether its `messages`
\* is an array, the messages, the JSON types of maxTokens and temperature,
\* and of tradingContext (an object without idea and watchlist).
JsonValue(isObject, isArray, messages, maxTokens) ==
    [isObject |-> isObject, messagesIsArray |-> isArray, messages |-> messages,
     maxTokens |-> maxTokens, temperature |-> "undefined",
     tradingContext |-> "undefined"]

Conversation(n, last) ==
    [i \in 1..n |-> IF i = n THEN Message("user", last)
                    ELSE Message(IF i % 2 = 1 THEN "user" ELSE "assistant", Hello)]

MessageLimit == 20
MaxContentLength == 2000

JsonValues ==
    { JsonValue(FALSE, FALSE, <<>>, "undefined"),
      JsonValue(TRUE, FALSE, <<>>, "undefined"),
      JsonValue(TRUE, TRUE, <<>>, "undefined"),
      JsonValue(TRUE, TRUE, <<Message("user", Blank)>>, "undefined"),
      JsonValue(TRUE, TRUE, <<Message("admin", Hello)>>, "undefined"),
      JsonValue(TRUE, TRUE, <<Message("user", Hello)>>, "string"),
      JsonValue(TRUE, TRUE, <<Message("user", PaddedHello)>>, "number"),
      JsonValue(TRUE, TRUE, <<Message("user", ResearchTicker)>>, "undefined"),
      JsonValue(TRUE, TRUE, <<Message("user", ResearchName)>>, "undefined"),
      JsonValue(TRUE, TRUE, <<Message("user", KeywordOnly)>>, "undefined"),
      JsonValue(TRUE, TRUE, Conversation(MessageLimit, Hello), "undefined"),
      JsonValue(TRUE, TRUE, Conversation(MessageLimit + 1, Hello), "undefined"),
      JsonValue(TRUE, TRUE, Conversation(MessageLimit + 1, ResearchTicker), "undefined") }

\* What request.json() does with the body: it rejects, or resolves to a value.
NoValue == JsonValue(FALSE, FALSE, <<>>, "undefined")
Unread == [state |-> "unread", value |-> NoValue]
Malformed == [state |-> "malformed", value |-> NoValue]
Json(v) == [state |-> "json", value |-> v]
Bodies == {Malformed} \cup {Json(v) : v \in JsonValues}

\* isValidChatRequest(body)
isValidChatRequest(body) ==
    /\ body.isObject
    /\ body.messagesIsArray
    /\ Len(body.messages) # 0
    /\ \A i \in 1..Len(body.messages) :
           /\ TrimTokens(body.messages[i].content) # <<>>
           /\ body.messages[i].role \in {"user", "assistant", "system"}
    /\ body.maxTokens \in {"undefined", "number"}
    /\ body.temperature \in {"undefined", "number"}
    /\ body.tradingContext \in {"undefined", "object"}

\* validateBody(request, validator, errorMessage): never rejects; the catch
\* turns a failed read or parse into a failure result.
NoValidation == [success |-> FALSE, response |-> NoHttpResponse]

validateBodyMutNoEcho(body, errorMessage) ==
    IF body.state = "malformed"
    THEN [success |-> FALSE,
          response |-> apiErrorEnvelope("Invalid JSON in request body", 400,
                                        [kind |-> "message"], NoCode)]
    ELSE IF ~isValidChatRequest(body.value)
         THEN [success |-> FALSE,
               response |-> apiErrorEnvelope(errorMessage, 400, Undefined, NoCode)]
         ELSE [success |-> TRUE, data |-> body.value]
validateBody(body, errorMessage) ==
    IF body.state = "malformed"
    THEN [success |-> FALSE,
          response |-> apiErrorEnvelope("Invalid JSON in request body", 400,
                                        [kind |-> "message"], NoCode)]
    ELSE IF ~isValidChatRequest(body.value)
         THEN [success |-> FALSE,
               response |-> apiErrorEnvelope(errorMessage, 400,
                                [kind |-> "object", receivedBody |-> body.value],
                                NoCode)]
         ELSE [success |-> TRUE, data |-> body.value]

\* sanitizeMessage: content.trim().slice(0, 2000)
sanitizeMessage(message) ==
    [message EXCEPT !.content = Slice(TrimTokens(@), MaxContentLength)]

\* Some words of researchKeywords and of commonWords, and the tokens that
\* match /\b[A-Z]{2,6}\b/.
ResearchKeywords == {"research", "analyze", "growth"}
CommonWords == {"THE", "AND"}
UpperCaseWords == {"THE", "AND", "AAPL", "TSLA"}

isResearchRequest(content) ==
    \E i \in 1..Len(content) : content[i] \in ResearchKeywords

NoQuery == ""

\* primaryTicker: the first upper-case word that is no common word
PrimaryTicker(content) ==
    LET hits == SelectSeq(content, LAMBDA w : w \in UpperCaseWords /\ w \notin CommonWords)
    IN  IF hits = <<>> THEN NoQuery ELSE Head(hits)

\* companyPatterns: the word after "research" or "analyze" and white space
CompanyName(content) ==
    LET at == {i \in 1..(Len(content) - 2) :
                   /\ content[i] \in {"research", "analyze"}
                   /\ IsSpace(content[i + 1])
                   /\ ~IsSpace(content[i + 2])}
    IN  IF at = {} THEN NoQuery
        ELSE content[(CHOOSE i \in at : \A j \in at : i <= j) + 2]

\* The query performStockResearch is called with, or none.
ResearchQuery(content) ==
    IF ~isResearchRequest(content) THEN NoQuery
    ELSE IF PrimaryTicker(content) # NoQuery THEN PrimaryTicker(content)
         ELSE CompanyName(content)

\* Math.ceil((resetTime - Date.now()) / 1000), for resetTime >= now
WaitTime(resetTime, t) == (resetTime - t + 999) \div 1000

RateLimitResponse(result, t) ==
    apiErrorEnvelope("Rate limit exceeded", 429,
                     [kind |-> "object", resetTime |-> result.resetTime,
                      waitTime |-> WaitTime(result.resetTime, t)],
                     "RATE_LIMIT_EXCEEDED")

\* A request the server is not handling.
FreeRequest ==
    [pc |-> "free", userId |-> "none", rate |-> [allowed |-> TRUE], at |-> 0,
     body |-> Unread, validation |-> NoValidation, messages |-> <<>>,
     searchCalls |-> 0, llmCalls |-> 0, response |-> NoHttpResponse]

Done(req, resp) == [req EXCEPT !.pc = "done", !.response = resp]

ChatInit == requests = [r \in Requests |-> FreeRequest]

\* The handler from its start to its first await: the rate check, then
\* either the 429 or the call of validateBody, which awaits request.json().
PostEntryMutNoCheck(req, userId, result, t) ==
    [req EXCEPT !.pc = "json", !.userId = userId, !.rate = result, !.at = t]
PostEntry(req, userId, result, t) ==
    LET checked == [req EXCEPT !.userId = userId, !.rate = result, !.at = t]
    IN  IF ~result.allowed
        THEN Done(checked, RateLimitResponse(result, t))
        ELSE [checked EXCEPT !.pc = "json"]

\* The attempts of the completion call: withRetry(..., 3, 1000, 'OpenAI API call').
LlmAttempts == 3

\* After the research: the message count test, the client, the first call of
\* the completion API.
AfterResearch(req, openaiKey) ==
    IF Len(req.messages) > MessageLimit
    THEN Done(req, apiErrorEnvelope("Too many messages in conversation", 400,
                                    JsonNull, "MESSAGE_LIMIT_EXCEEDED"))
    ELSE IF ~openaiKey
         THEN Done(req, apiErrorEnvelope("AI service is currently unavailable", 503,
                                         JsonNull, "OPENAI_UNAVAILABLE"))
         ELSE [req EXCEPT !.pc = "llm", !.llmCalls = 1]

\* The handler after request.json() has settled, up to its next await.
AfterBody(req, body, serpKey, openaiKey) ==
    LET validation == validateBody(body, "Invalid chat request")
        read == [req EXCEPT !.body = body, !.validation = validation]
    IN  IF ~validation.success THEN Done(read, validation.response)
        ELSE LET messages == [i \in 1..Len(validation.data.messages) |->
                                  sanitizeMessage(validation.data.messages[i])]
                 lastMessage == messages[Len(messages)]
                 sane == [read EXCEPT !.messages = messages]
             IN  IF ResearchQuery(lastMessage.content) # NoQuery /\ serpKey
                 THEN [sane EXCEPT !.pc = "search", !.searchCalls = 1]
                 ELSE AfterResearch(sane, openaiKey)

\* The catch block of POST, for what the completion call threw: an
\* OpenAI.APIError of status 401, 429 or 400, or anything else (0).
LlmErrors == {401, 429, 400, 0}
ChatErrorResponse(e) ==
    CASE e = 401 -> apiErrorEnvelope("AI service authentication failed.", 500,
                                     JsonNull, "OPENAI_AUTH_ERROR")
      [] e = 429 -> apiErrorEnvelope("AI service is currently busy", 429,
                                     JsonNull, "OPENAI_RATE_LIMIT")
      [] e = 400 -> apiErrorEnvelope("Invalid request to AI service", 400,
                                     JsonNull, "OPENAI_BAD_REQUEST")
      [] OTHER -> apiErrorEnvelope("Failed to generate AI response", 500,
                                   [kind |-> "message"], "CHAT_ERROR")

\* A request arrives: withAuth awaits the session of the caller.
Arrive(r) ==
    /\ requests[r].pc = "free"
    /\ requests' = [requests EXCEPT ![r].pc = "auth"]
    /\ UNCHANGED <<rateVars, retryVars, ideaVars, fetchVars, saveVars, watchVars, authVars>>

\* withAuth without a user: the session lookup reports an error, finds no
\* user, or throws.
AuthFails(r, how) ==
    /\ requests[r].pc = "auth"
    /\ requests' = [requests EXCEPT ![r] = Done(@,
           CASE how = "error" -> apiErrorEnvelope("Authentication failed", 401,
                                                  [kind |-> "object"], NoCode)
             [] how = "no user" -> apiErrorEnvelope("Unauthorized - no user found", 401,
                                                    Undefined, NoCode)
             [] OTHER -> apiErrorEnvelope("Authentication error", 500,
                                          [kind |-> "message"], NoCode))]
    /\ UNCHANGED <<rateVars, retryVars, ideaVars, fetchVars, saveVars, watchVars, authVars>>

\* withAuth with a user: POST runs up to its first await.
POST(r, userId) ==
    /\ requests[r].pc = "auth"
    /\ CheckRateLimitCall(userId)
    /\ requests' = [requests EXCEPT ![r] =
           PostEntry(@, userId, CheckResult(rateLimitStore, userId, now), now)]
    /\ UNCHANGED <<retryVars, ideaVars, fetchVars, saveVars, watchVars, authVars>>

\* request.json() settles.
BodySettles(r, body, serpKey, openaiKey) ==
    /\ requests[r].pc = "json"
    /\ requests' = [requests EXCEPT ![r] = AfterBody(@, body, serpKey, openaiKey)]
    /\ UNCHANGED <<rateVars, retryVars, ideaVars, fetchVars, saveVars, watchVars, authVars>>

\* performStockResearch settles (it catches what the search raises).
SearchSettles(r, openaiKey) ==
    /\ requests[r].pc = "search"
    /\ requests' = [requests EXCEPT ![r] = AfterResearch(@, openaiKey)]
    /\ UNCHANGED <<rateVars, retryVars, ideaVars, fetchVars, saveVars, watchVars, authVars>>

\* The completion call resolves, with or without content.
LlmResolves(r, hasContent) ==
    /\ requests[r].pc = "llm"
    /\ requests' = [requests EXCEPT ![r] = Done(@,
           IF hasContent THEN apiSuccessEnvelope("Chat response generated successfully")
           ELSE apiErrorEnvelope("AI service returned an empty response", 500,
                                 JsonNull, "EMPTY_RESPONSE"))]
    /\ UNCHANGED <<rateVars, retryVars, ideaVars, fetchVars, saveVars, watchVars, authVars>>

\* The completion call rejects: withRetry calls again, or gives up.
LlmRejects(r, e) ==
    /\ requests[r].pc = "llm"
    /\ requests' = [requests EXCEPT ![r] =
           IF @.llmCalls < LlmAttempts THEN [@ EXCEPT !.llmCalls = @ + 1]
           ELSE Done(@, ChatErrorResponse(e))]
    /\ UNCHANGED <<rateVars, retryVars, ideaVars, fetchVars, saveVars, watchVars, authVars>>

\* The response has been sent.
Sent(r) ==
    /\ requests[r].pc = "done"
    /\ requests' = [requests EXCEPT ![r] = FreeRequest]
    /\ UNCHANGED <<rateVars, retryVars, ideaVars, fetchVars, saveVars, watchVars, authVars>>

\* One request after the other, in every environment.
ChatNext ==
    \/ Arrive("r1")
    \/ \E how \in {"error", "no user", "throws"} : AuthFails("r1", how)
    \/ \E u \in ChatUsers : POST("r1", u)
    \/ \E b \in Bodies, k1, k2 \in BOOLEAN : BodySettles("r1", b, k1, k2)
    \/ \E k \in BOOLEAN : SearchSettles("r1", k)
    \/ \E c \in BOOLEAN : LlmResolves("r1", c)
    \/ \E e \in LlmErrors : LlmRejects("r1", e)
    \/ Sent("r1")
    \/ \E d \in TickSteps : Tick(d)

\* Requests of one identity handled at the same time, on a server without
\* the keys of the search and completion services, with a body that does not
\* parse or a one-message conversation.
BurstBodies ==
    {Malformed, Json(JsonValue(TRUE, TRUE, <<Message("user", PaddedHello)>>, "number"))}

BurstNext ==
    \/ \E r \in Requests : Arrive(r)
    \/ \E r \in Requests, how \in {"error", "no user", "throws"} : AuthFails(r, how)
    \/ \E r \in Requests, u \in ChatUsers : POST(r, u)
    \/ \E r \in Requests, b \in BurstBodies : BodySettles(r, b, FALSE, FALSE)
    \/ \E r \in Requests : Sent(r)
    \/ \E d \in TickSteps : Tick(d)

(***************************************************************************)
(* Handlers that wrap a storage call in withRetry                         *)
(***************************************************************************)
\* GET /api/ideas/all (part_010) and GET /api/ideas/saved
Routes == {"ideas/all", "ideas/saved"}
RouteOperation(h) ==
    IF h = "ideas/all" THEN "Fetch all trading ideas" ELSE "Fetch saved ideas"

\* The attempts and the initial delay both handlers pass to withRetry.
RouteRetries == 3
RouteDelay == 1000

\* error.message.includes('Database error')
IncludesDatabaseError(error) ==
    \E i \in 1..Len(error.message) : error.message[i] = "Database error: "

\* What the handler answers once withRetry has returned or thrown.  The
\* ideas feed catches the error, logs it and goes on to its fallback list; the
\* saved-ideas handler answers in its catch block.
RouteResponse(h, outcome) ==
    IF outcome.kind = "returned"
    THEN apiSuccessEnvelope("Retrieved")
    ELSE IF h = "ideas/all"
         THEN apiSuccessEnvelope("Returned mock trading ideas")
         ELSE IF IncludesDatabaseError(outcome.error)
              THEN apiErrorEnvelope("Failed to fetch saved ideas from database", 500,
                                    [kind |-> "message"], "DATABASE_ERROR")
              ELSE apiErrorEnvelope("Failed to fetch saved ideas", 500,
                                    [kind |-> "message"], NoCode)

\* The handler starts and calls withRetry.
RouteGET(h) ==
    /\ route = "none" \/ httpResponse # NoHttpResponse
    /\ WithRetryCall(RouteRetries, RouteDelay, RouteOperation(h))
    /\ route' = h
    /\ httpResponse' = NoHttpResponse
    /\ UNCHANGED <<rateVars, ideaVars, chatVars, saveVars, watchVars, authVars>>

\* await withRetry(...) settles and the handler answers.
RouteAnswers ==
    /\ route # "none"
    /\ httpResponse = NoHttpResponse
    /\ rpc \in {"returned", "thrown"}
    /\ httpResponse' = RouteResponse(route, retryOutcome)
    /\ UNCHANGED <<route, rateVars, retryVars, ideaVars, chatVars, saveVars, watchVars, authVars>>

FetchNext ==
    \/ \E h \in Routes : RouteGET(h)
    \/ \E v \in OpValues : OperationResolves(v)
    \/ \E e \in OpThrown : OperationRejects(e)
    \/ BackoffElapsed
    \/ RouteAnswers

(***************************************************************************)
(* Specifications                                                          *)
(***************************************************************************)
FetchInit == route = "none" /\ httpResponse = NoHttpResponse

(***************************************************************************)
(* POST /api/ideas/saved (src/src/app/api/ideas/saved/route.ts)            *)
(***************************************************************************)
\* Requests of one user for one idea_id that the server handles at a time.
SaveRequests == {"s1", "s2"}

\* Rows of the pair that are followed.
MaxInteractions == 3

\* withRetry(..., 3, 1000, 'Save idea interaction')
SaveAttempts == 3

NoSave ==
    [pc |-> "free", attempt |-> 0, found |-> 0, inserted |-> 0,
     status |-> 0, message |-> ""]

SaveInit ==
    /\ interactions = 0
    /\ saves = [r \in SaveRequests |-> NoSave]

SaveDone(save, status, message) ==
    [save EXCEPT !.pc = "done", !.status = status, !.message = message]

\* .select('id')...single(): the row when exactly one row matches; with no
\* row or several rows the client reports PGRST116 and no data.
ExistingInteraction(rows) == rows = 1

\* The operation throws inside withRetry: the next attempt after the backoff,
\* or, on the last attempt, the handler's catch and its 500.
SaveThrows(save) ==
    IF save.attempt < SaveAttempts
    THEN [save EXCEPT !.pc = "backoff"]
    ELSE SaveDone(save, 500, "Failed to save idea to database")

\* The handler starts: its body is valid, withRetry calls the operation.
SavePOST(r) ==
    /\ saves[r].pc = "free"
    /\ saves' = [saves EXCEPT ![r] = [NoSave EXCEPT !.pc = "check", !.attempt = 1,
                                                   !.found = interactions]]
    /\ UNCHANGED interactions
    /\ UNCHANGED <<rateVars, retryVars, ideaVars, chatVars, fetchVars, watchVars, authVars>>

\* The existence check settles: it fails, finds the row, or finds no single row.
CheckSettles(r, fails) ==
    /\ saves[r].pc = "check"
    /\ saves' = [saves EXCEPT ![r] =
           IF fails THEN SaveThrows(@)
           ELSE IF ExistingInteraction(interactions)
                THEN SaveDone(@, 200, "Idea is already saved")
                ELSE [@ EXCEPT !.pc = "insert"]]
    /\ UNCHANGED interactions
    /\ UNCHANGED <<rateVars, retryVars, ideaVars, chatVars, fetchVars, watchVars, authVars>>

\* The insert settles: the row is written and returned; or the row is
\* written and the answer is lost; or nothing is written and an error is
\* reported (the storage service fails or refuses the row).
InsertSettles(r, written, answered) ==
    /\ saves[r].pc = "insert"
    /\ written => interactions < MaxInteractions
    /\ answered => written
    /\ interactions' = IF written THEN interactions + 1 ELSE interactions
    /\ saves' = [saves EXCEPT ![r] =
           IF answered
           THEN SaveDone([@ EXCEPT !.inserted = @ + 1], 201, "Idea saved successfully!")
           ELSE SaveThrows([@ EXCEPT !.inserted = @ + (IF written THEN 1 ELSE 0)])]
    /\ UNCHANGED <<rateVars, retryVars, ideaVars, chatVars, fetchVars, watchVars, authVars>>

\* The backoff delay of withRetry elapses: the next attempt starts.
SaveBackoffElapsed(r) ==
    /\ saves[r].pc = "backoff"
    /\ saves' = [saves EXCEPT ![r].pc = "check", ![r].attempt = @ + 1]
    /\ UNCHANGED interactions
    /\ UNCHANGED <<rateVars, retryVars, ideaVars, chatVars, fetchVars, watchVars, authVars>>

\* The response is sent.
SaveSent(r) ==
    /\ saves[r].pc = "done"
    /\ saves' = [saves EXCEPT ![r] = NoSave]
    /\ UNCHANGED interactions
    /\ UNCHANGED <<rateVars, retryVars, ideaVars, chatVars, fetchVars, watchVars, authVars>>

SaveNext ==
    \/ \E r \in SaveRequests : SavePOST(r)
    \/ \E r \in SaveRequests, fails \in BOOLEAN : CheckSettles(r, fails)
    \/ \E r \in SaveRequests, written, answered \in BOOLEAN : InsertSettles(r, written, answered)
    \/ \E r \in SaveRequests : SaveBackoffElapsed(r)
    \/ \E r \in SaveRequests : SaveSent(r)

(***************************************************************************)
(* POST /api/watchlist (src/src/app/api/watchlist/route.ts)                *)
(***************************************************************************)
\* Requests of one user for one existing watchlist that the server handles
\* at a time, and the tickers they add (already upper-cased and trimmed).
WatchRequests == {"w1", "w2"}
WatchTickers == {"NVDA", "TSLA"}

\* withRetry(..., 3, 1000, 'Add ticker to watchlist')
WatchAttempts == 3

NoAdd ==
    [pc |-> "free", ticker |-> "", attempt |-> 0, existingWatchlist |-> <<>>,
     type |-> "", status |-> 0]

\* The user's watchlist row exists and holds one ticker.
WatchInit ==
    /\ watchlist = <<"AAPL">>
    /\ adds = [r \in WatchRequests |-> NoAdd]

\* existingWatchlist.tickers.includes(cleanTicker)
Includes(tickers, ticker) == \E i \in 1..Len(tickers) : tickers[i] = ticker

\* [...existingWatchlist.tickers, cleanTicker]
UpdatedTickers(tickers, ticker) == Append(tickers, ticker)

AddDone(add, type, status) == [add EXCEPT !.pc = "done", !.type = type, !.status = status]

\* The operation throws inside withRetry: the next attempt after the backoff,
\* or, on the last attempt, the handler's catch and its 500.
AddThrows(add) ==
    IF add.attempt < WatchAttempts
    THEN [add EXCEPT !.pc = "backoff"]
    ELSE AddDone(add, "DATABASE_ERROR", 500)

\* The handler starts: its body is valid, withRetry calls the operation.
WatchPOST(r, ticker) ==
    /\ adds[r].pc = "free"
    /\ adds' = [adds EXCEPT ![r] = [NoAdd EXCEPT !.pc = "fetch", !.ticker = ticker,
                                                !.attempt = 1]]
    /\ UNCHANGED watchlist
    /\ UNCHANGED <<rateVars, retryVars, ideaVars, chatVars, fetchVars, saveVars, authVars>>

\* The select of the watchlist row settles: it fails, or returns the row.
\* The row exists, so the branch that creates it is not taken.
WatchlistFetched(r, fails) ==
    /\ adds[r].pc = "fetch"
    /\ adds' = [adds EXCEPT ![r] =
           IF fails THEN AddThrows(@)
           ELSE IF Includes(watchlist, @.ticker)
                THEN AddDone([@ EXCEPT !.existingWatchlist = watchlist],
                             "already_exists", 200)
                ELSE [@ EXCEPT !.pc = "update", !.existingWatchlist = watchlist]]
    /\ UNCHANGED watchlist
    /\ UNCHANGED <<rateVars, retryVars, ideaVars, chatVars, fetchVars, saveVars, authVars>>

\* The update settles: the row's tickers are replaced by the ones read plus
\* the new one and the row is returned; or they are replaced and the answer
\* is lost; or the update fails.
WatchlistUpdated(r, written, answered) ==
    /\ adds[r].pc = "update"
    /\ answered => written
    /\ watchlist' = IF written
                    THEN UpdatedTickers(adds[r].existingWatchlist, adds[r].ticker)
                    ELSE watchlist
    /\ adds' = [adds EXCEPT ![r] =
           IF answered THEN AddDone(@, "updated", 200) ELSE AddThrows(@)]
    /\ UNCHANGED <<rateVars, retryVars, ideaVars, chatVars, fetchVars, saveVars, authVars>>

\* The backoff delay of withRetry elapses: the next attempt starts.
AddBackoffElapsed(r) ==
    /\ adds[r].pc = "backoff"
    /\ adds' = [adds EXCEPT ![r].pc = "fetch", ![r].attempt = @ + 1]
    /\ UNCHANGED watchlist
    /\ UNCHANGED <<rateVars, retryVars, ideaVars, chatVars, fetchVars, saveVars, authVars>>

\* The response is sent.
AddSent(r) ==
    /\ adds[r].pc = "done"
    /\ adds' = [adds EXCEPT ![r] = NoAdd]
    /\ UNCHANGED watchlist
    /\ UNCHANGED <<rateVars, retryVars, ideaVars, chatVars, fetchVars, saveVars, authVars>>

WatchNext ==
    \/ \E r \in WatchRequests, t \in WatchTickers : WatchPOST(r, t)
    \/ \E r \in WatchRequests, fails \in BOOLEAN : WatchlistFetched(r, fails)
    \/ \E r \in WatchRequests, written, answered \in BOOLEAN : WatchlistUpdated(r, written, answered)
    \/ \E r \in WatchRequests : AddBackoffElapsed(r)
    \/ \E r \in WatchRequests : AddSent(r)

(***************************************************************************)
(* AuthProvider (src/src/contexts/AuthContext.tsx)                         *)
(***************************************************************************)
\* Auth events and calls of signOut and refreshProfile that are followed.
MaxAuthEvents == 3

\* Invocations of the onAuthStateChange callback that can be pending at once.
Callbacks == {"cb1", "cb2"}
Handlers == {"getInitialSession", "signOut", "refreshProfile"} \cup Callbacks

AuthEvents == {"SIGNED_IN", "SIGNED_OUT", "TOKEN_REFRESHED"}

NoUser == "null"
TheUser == "u1"
NoProfile == "null"
ProfileOf(userId) == <<"profile", userId>>
NoSession == "null"
SessionOf(userId) == <<"session", userId>>

\* The provider is mounted: the effect has called getInitialSession, which
\* has armed its timeout and awaits supabase.auth.getSession().
AuthInit ==
    /\ user = NoUser
    /\ profile = NoProfile
    /\ session = NoSession
    /\ loading = TRUE
    /\ handlers = [h \in Handlers |->
                      IF h = "getInitialSession" THEN [pc |-> "getSession", userId |-> NoUser]
                      ELSE [pc |-> "idle", userId |-> NoUser]]
    /\ initTimeoutId = TRUE
    /\ authEvents = 0

Idle == [pc |-> "idle", userId |-> NoUser]
AwaitProfile(userId) == [pc |-> "fetchUserProfile", userId |-> userId]

\* What fetchUserProfile(userId) resolves to: the profile row, or null (no
\* row, an error, the timeout).
FetchedProfile(userId, found) == IF found THEN ProfileOf(userId) ELSE NoProfile

\* The timeout of getInitialSession fires before getSession() has answered.
InitTimeout ==
    /\ initTimeoutId
    /\ loading' = FALSE
    /\ initTimeoutId' = FALSE
    /\ UNCHANGED <<user, profile, session, handlers, authEvents>>
    /\ UNCHANGED <<rateVars, retryVars, ideaVars, chatVars, fetchVars, saveVars, watchVars>>

\* getSession() settles: with an error or an exception, without a session,
\* or with a session, in which case the profile is fetched.
GetSessionSettles(outcome) ==
    /\ handlers["getInitialSession"].pc = "getSession"
    /\ initTimeoutId' = FALSE
    /\ IF outcome = "session"
       THEN /\ session' = SessionOf(TheUser)
            /\ user' = TheUser
            /\ handlers' = [handlers EXCEPT !["getInitialSession"] = AwaitProfile(TheUser)]
            /\ UNCHANGED <<profile, loading>>
       ELSE /\ session' = NoSession
            /\ user' = NoUser
            /\ profile' = NoProfile
            /\ loading' = FALSE
            /\ handlers' = [handlers EXCEPT !["getInitialSession"] = Idle]
    /\ UNCHANGED authEvents
    /\ UNCHANGED <<rateVars, retryVars, ideaVars, chatVars, fetchVars, saveVars, watchVars>>

\* The profile fetch of getInitialSession settles.
InitialProfileSettles(found) ==
    /\ handlers["getInitialSession"].pc = "fetchUserProfile"
    /\ profile' = FetchedProfile(handlers["getInitialSession"].userId, found)
    /\ loading' = FALSE
    /\ handlers' = [handlers EXCEPT !["getInitialSession"] = Idle]
    /\ UNCHANGED <<user, session, initTimeoutId, authEvents>>
    /\ UNCHANGED <<rateVars, retryVars, ideaVars, chatVars, fetchVars, saveVars, watchVars>>

\* The onAuthStateChange callback is called with an event.
onAuthStateChange(h, event) ==
    /\ handlers[h].pc = "idle"
    /\ authEvents < MaxAuthEvents
    /\ authEvents' = authEvents + 1
    /\ CASE event = "SIGNED_IN" ->
              /\ loading' = TRUE
              /\ session' = SessionOf(TheUser)
              /\ user' = TheUser
              /\ handlers' = [handlers EXCEPT ![h] = AwaitProfile(TheUser)]
              /\ UNCHANGED profile
         [] event = "SIGNED_OUT" ->
              /\ session' = NoSession
              /\ user' = NoUser
              /\ profile' = NoProfile
              /\ loading' = FALSE
              /\ UNCHANGED handlers
         [] OTHER ->
              /\ session' = SessionOf(TheUser)
              /\ loading' = FALSE
              /\ UNCHANGED <<user, profile, handlers>>
    /\ UNCHANGED initTimeoutId
    /\ UNCHANGED <<rateVars, retryVars, ideaVars, chatVars, fetchVars, saveVars, watchVars>>

\* The profile fetch of a SIGNED_IN callback settles.
SignedInProfileSettles(h, found) ==
    /\ handlers[h].pc = "fetchUserProfile"
    /\ profile' = FetchedProfile(handlers[h].userId, found)
    /\ initTimeoutId' = FALSE
    /\ loading' = FALSE
    /\ handlers' = [handlers EXCEPT ![h] = Idle]
    /\ UNCHANGED <<user, session, authEvents>>
    /\ UNCHANGED <<rateVars, retryVars, ideaVars, chatVars, fetchVars, saveVars, watchVars>>

\* signOut() is called: it sets loading and awaits supabase.auth.signOut().
signOut ==
    /\ handlers["signOut"].pc = "idle"
    /\ authEvents < MaxAuthEvents
    /\ authEvents' = authEvents + 1
    /\ loading' = TRUE
    /\ handlers' = [handlers EXCEPT !["signOut"] = [pc |-> "auth.signOut", userId |-> NoUser]]
    /\ UNCHANGED <<user, profile, session, initTimeoutId>>
    /\ UNCHANGED <<rateVars, retryVars, ideaVars, chatVars, fetchVars, saveVars, watchVars>>

\* supabase.auth.signOut() settles, fails or times out: the state is cleared
\* and router.push('/') is awaited.
AuthSignOutSettles ==
    /\ handlers["signOut"].pc = "auth.signOut"
    /\ user' = NoUser
    /\ profile' = NoProfile
    /\ session' = NoSession
    /\ handlers' = [handlers EXCEPT !["signOut"] = [pc |-> "router.push", userId |-> NoUser]]
    /\ UNCHANGED <<loading, initTimeoutId, authEvents>>
    /\ UNCHANGED <<rateVars, retryVars, ideaVars, chatVars, fetchVars, saveVars, watchVars>>

\* router.push('/') settles: the finally block of signOut.
RouterPushSettles ==
    /\ handlers["signOut"].pc = "router.push"
    /\ loading' = FALSE
    /\ handlers' = [handlers EXCEPT !["signOut"] = Idle]
    /\ UNCHANGED <<user, profile, session, initTimeoutId, authEvents>>
    /\ UNCHANGED <<rateVars, retryVars, ideaVars, chatVars, fetchVars, saveVars, watchVars>>

\* refreshProfile() is called: with a user it fetches the user's profile.
refreshProfile ==
    /\ handlers["refreshProfile"].pc = "idle"
    /\ authEvents < MaxAuthEvents
    /\ authEvents' = authEvents + 1
    /\ handlers' = [handlers EXCEPT !["refreshProfile"] =
                        IF user # NoUser THEN AwaitProfile(user) ELSE Idle]
    /\ UNCHANGED <<user, profile, session, loading, initTimeoutId>>
    /\ UNCHANGED <<rateVars, retryVars, ideaVars, chatVars, fetchVars, saveVars, watchVars>>

\* The profile fetch of refreshProfile settles.
RefreshProfileSettles(found) ==
    /\ handlers["refreshProfile"].pc = "fetchUserProfile"
    /\ profile' = FetchedProfile(handlers["refreshProfile"].userId, found)
    /\ handlers' = [handlers EXCEPT !["refreshProfile"] = Idle]
    /\ UNCHANGED <<user, session, loading, initTimeoutId, authEvents>>
    /\ UNCHANGED <<rateVars, retryVars, ideaVars, chatVars, fetchVars, saveVars, watchVars>>

AuthNext ==
    \/ InitTimeout
    \/ \E outcome \in {"error", "no session", "session"} : GetSessionSettles(outcome)
    \/ \E found \in BOOLEAN : InitialProfileSettles(found)
    \/ \E h \in Callbacks, event \in AuthEvents : onAuthStateChange(h, event)
    \/ \E h \in Callbacks, found \in BOOLEAN : SignedInProfileSettles(h, found)
    \/ signOut
    \/ AuthSignOutSettles
    \/ RouterPushSettles
    \/ refreshProfile
    \/ \E found \in BOOLEAN : RefreshProfileSettles(found)

Init ==
    /\ RateInit /\ RetryInit /\ IdeasInit /\ ChatInit /\ FetchInit
    /\ SaveInit /\ WatchInit /\ AuthInit

SpecRate == Init /\ [][RateNext]_vars
SpecRetry == Init /\ [][RetryNext]_vars
SpecIdeas == Init /\ [][IdeasNext]_vars
SpecChat == Init /\ [][ChatNext]_vars
SpecBurst == Init /\ [][BurstNext]_vars
SpecFetch == Init /\ [][FetchNext]_vars
SpecSave == Init /\ [][SaveNext]_vars
SpecWatch == Init /\ [][WatchNext]_vars
SpecAuth == Init /\ [][AuthNext]_vars


(***************************************************************************)
(* Claims about the rate limiter (SpecRate)                                *)
(***************************************************************************)
\* The identity, time and pre-state of the last checkRateLimit call.
LastCallMade == rlResult # NoCall
LastCallInWindow ==
    /\ LastCallMade
    /\ rlResult.userId \in DOMAIN rlResult.before
    /\ rlResult.at <= rlResult.before[rlResult.userId].resetTime

\* C2: every entry of the store has 1 <= count <= maxRequests, the calls
\* allowed in an identity's window never number more than maxRequests, and a
\* call made inside a window whose count is already maxRequests is not allowed.
C2_CountWithinCeiling ==
    /\ \A u \in DOMAIN rateLimitStore :
           /\ rateLimitStore[u].count >= 1
           /\ rateLimitStore[u].count <= maxRequests
    /\ \A u \in Users : rlWindow[u].allowed <= maxRequests
    /\ (LastCallInWindow /\ rlResult.result.allowed)
           => rlResult.before[rlResult.userId].count + 1 <= maxRequests

\* an identity at the ceiling has just been rejected
C2_Witness ==
    /\ LastCallInWindow
    /\ ~rlResult.result.allowed
    /\ rateLimitStore[rlResult.userId].count = maxRequests

\* C3: within one window the k-th call of an identity is allowed for k <= 10;
\* the 11th and every later call is rejected with a resetTime strictly later
\* than the time of the call.
C3_WindowBoundary ==
    LastCallMade =>
        LET k == rlWindow[rlResult.userId].calls IN
        /\ k <= maxRequests => rlResult.result.allowed
        /\ k > maxRequests =>
               /\ ~rlResult.result.allowed
               /\ rlResult.result.resetTime > rlResult.at

\* C4: a call later than the entry's resetTime is allowed and replaces the
\* entry by {count: 1, resetTime: now + windowMs}, whatever the entry was.
C4_ExpiredWindowResets ==
    (/\ LastCallMade
     /\ rlResult.userId \in DOMAIN rlResult.before
     /\ rlResult.at > rlResult.before[rlResult.userId].resetTime)
    => /\ rlResult.result.allowed
       /\ rateLimitStore[rlResult.userId] =
              [count |-> 1, resetTime |-> rlResult.at + windowMs]

\* an identity that was at the ceiling calls after its window has elapsed
C4_Witness ==
    /\ LastCallMade
    /\ rlResult.userId \in DOMAIN rlResult.before
    /\ rlResult.before[rlResult.userId].count = maxRequests
    /\ rlResult.at > rlResult.before[rlResult.userId].resetTime
    /\ rlResult.result.allowed

(***************************************************************************)
(* Claims about withRetry (SpecRetry)                                      *)
(***************************************************************************)
RECURSIVE SumSeq(_)
SumSeq(q) == IF q = <<>> THEN 0 ELSE Head(q) + SumSeq(Tail(q))

AllAttemptsFailed ==
    /\ rpc = "thrown"
    /\ maxRetries >= 1
    /\ \A i \in 1..Len(opLog) : ~opLog[i].ok

\* C5: when every attempt fails, operation() has run exactly maxRetries times,
\* the waits are delayMs * 2^(k-1) after failure k = 1..maxRetries-1 and none
\* after the last, they add up to delayMs * (2^(maxRetries-1) - 1), and the
\* error thrown is the one of the last attempt.
C5_ExhaustedRetries ==
    AllAttemptsFailed =>
        /\ Len(opLog) = maxRetries
        /\ Len(waited) = maxRetries - 1
        /\ \A k \in 1..Len(waited) : waited[k] = delayMs * 2^(k - 1)
        /\ SumSeq(waited) = delayMs * (2^(maxRetries - 1) - 1)
        /\ retryOutcome.error.message = opLog[maxRetries].thrown.message

\* withRetry(op, 3, 100) has failed three times
C5_Witness ==
    /\ AllAttemptsFailed
    /\ maxRetries = 3
    /\ delayMs = 100
    /\ SumSeq(waited) = 300

\* C6: a success on attempt k returns that attempt's value after exactly k
\* calls of operation(), k <= maxRetries, all earlier ones having failed, in
\* every invocation whatever the one before it did; and after the return
\* operation() is not called again by that invocation.
C6_FirstSuccess ==
    /\ [](rpc = "returned" =>
            /\ Len(opLog) = attempt
            /\ attempt <= maxRetries
            /\ opLog[attempt].ok
            /\ \A i \in 1..(attempt - 1) : ~opLog[i].ok
            /\ retryOutcome = [kind |-> "returned", value |-> opLog[attempt].value])
    /\ [][(rpc = "returned" /\ invocations' = invocations) => opLog' = opLog]_vars

\* the second invocation succeeds on its second attempt
C6_Witness ==
    /\ rpc = "returned"
    /\ invocations = 2
    /\ attempt = 2

\* the message names the operation
Tagged(error, name) == \E i \in 1..Len(error.message) : error.message[i] = name

\* C7 as stated: when every attempt fails, the error thrown is the last
\* attempt's error and it carries operationName.
C7_TaggedWithOperationName ==
    AllAttemptsFailed =>
        /\ retryOutcome.error.message = opLog[Len(opLog)].thrown.message
        /\ Tagged(retryOutcome.error, operationName)

\* C7 amended: when every attempt fails, the error thrown is the last
\* attempt's error as raised (made an Error if it was none), and it does not
\* carry operationName; only the error thrown when no attempt ran names it.
C7_LastErrorUntagged ==
    /\ AllAttemptsFailed =>
           /\ retryOutcome.error = AsError(opLog[Len(opLog)].thrown)
           /\ ~Tagged(retryOutcome.error, operationName)
    /\ (rpc = "thrown" /\ maxRetries < 1) => Tagged(retryOutcome.error, operationName)

\* every attempt of a named operation has failed, the last with a value that
\* is no Error
C7_Witness ==
    /\ AllAttemptsFailed
    /\ maxRetries = 3
    /\ ~opLog[3].thrown.isError
    /\ retryOutcome.error.isError


(***************************************************************************)
(* Claims about the ideas feed (SpecIdeas)                                 *)
(***************************************************************************)
\* The full feed has answered; AnsweredPreview: the preview route has.
Answered ==
    /\ response # NoResponse
    /\ response.source \notin {"preview", "preview-mock", "FETCH_IDEAS_ERROR",
                              "ideas", "ideas-mock", "ideas-error"}
AnsweredPreview == response # NoResponse /\ ~Answered

\* The row carries the bulk markers: "IDEA 1" and "---" in its analysis.
HasBulkMarkers(row) ==
    /\ row.analysis # NullText
    /\ \E f \in 1..Len(row.analysis) : \E l \in 1..Len(row.analysis[f]) :
           row.analysis[f][l].kind \in {"theme", "marker"} /\ row.analysis[f][l].num = 1
    /\ Len(row.analysis) > 1

\* The narrative a fragment is specified to have: its non-blank lines after
\* the theme line that are no ticker lists.
SpecifiedBody(fragment) ==
    LET theme == CHOOSE i \in 1..Len(fragment) : fragment[i].kind = "theme"
    IN  SelectSeq(SubSeq(fragment, theme + 1, Len(fragment)),
                  LAMBDA line : line.kind = "text" \/ (line.kind = "caps" /\ line.len > TickerLineMaxLen))

HasThemeLine(fragment) == \E i \in 1..Len(fragment) : fragment[i].kind = "theme"

\* C1: the feed is never empty: when no rows came back, or the rows are
\* classified as bulk and yield no idea, the response holds the fallback list.
C1_NeverEmpty ==
    (Answered /\ response.status = 200) =>
        /\ response.data # <<>>
        /\ (fetched.isNull \/ fetched.rows = <<>>
              \/ ((\E i \in 1..Len(fetched.rows) : HasBulkMarkers(fetched.rows[i]))
                    /\ ParseRows(fetched.rows) = <<>>))
           => response.data = mockIdeas

\* C8: the handler never ends in an error response, whatever rows storage
\* returns, a bulk-marked row with null tickers included.
C8_NeverFails == Answered => response.status = 200

\* C9: for a non-empty batch without a bulk-marked row the response holds
\* exactly the rows of the batch, each unchanged, newest first.
C9_PassThrough ==
    (/\ Answered
     /\ ~fetched.isNull
     /\ fetched.rows # <<>>
     /\ \A i \in 1..Len(fetched.rows) : ~HasBulkMarkers(fetched.rows[i]))
    => /\ response.status = 200
       /\ Len(response.data) = Len(fetched.rows)
       /\ \A i \in 1..Len(fetched.rows) :
              \E j \in 1..Len(response.data) : response.data[j] = fetched.rows[i]
       /\ \A j \in 1..(Len(response.data) - 1) :
              DateGetTime(response.data[j].created_at)
                  >= DateGetTime(response.data[j + 1].created_at)

\* two single-idea rows of different dates, one of them with a "---" in its text
C9_Witness ==
    /\ Answered
    /\ ~fetched.isNull
    /\ Len(fetched.rows) = 2
    /\ \A i \in 1..2 : ~HasBulkMarkers(fetched.rows[i])
    /\ \E i \in 1..2 : Len(fetched.rows[i].analysis) > 1
    /\ fetched.rows[1].created_at # fetched.rows[2].created_at
    /\ Len(response.data) = 2

\* The one row of the batch is a bulk row of N non-blank fragments, each with
\* a theme line, and N ticker groups.
SingleBulkRow ==
    /\ Answered
    /\ ~fetched.isNull
    /\ Len(fetched.rows) = 1
    /\ HasBulkMarkers(fetched.rows[1])
    /\ \A f \in 1..Len(fetched.rows[1].analysis) :
           HasThemeLine(fetched.rows[1].analysis[f])
    /\ Len(fetched.rows[1].tickers) = Len(fetched.rows[1].analysis)

\* C10: such a row yields at most N ideas, and exactly N when every fragment
\* has a non-empty body after ticker-line filtering.
C10_FragmentCount ==
    SingleBulkRow =>
        LET row == fetched.rows[1]
            N == Len(row.analysis)
        IN  /\ response.status = 200
            /\ Len(response.data) <= N
            /\ (\A f \in 1..N : SpecifiedBody(row.analysis[f]) # <<>>)
                   => Len(response.data) = N

\* a row of three such fragments, one of them without a body, yields two ideas
C10_Witness ==
    /\ SingleBulkRow
    /\ Len(fetched.rows[1].analysis) = 3
    /\ Len(response.data) = 2

(***************************************************************************)
(* Claims about the emitted ideas (SpecIdeas)                              *)
(***************************************************************************)
\* A response built from storage rows, by the full feed or by the preview.
FromStorage == response.status = 200 /\ response.source \in {"database", "preview", "ideas"}

\* The text is null, or the empty string.
IsEmptyText(text) == text = NullText \/ text = << <<>> >>

BulkBatch == \E i \in 1..Len(fetched.rows) : HasBulkMarkers(fetched.rows[i])

\* C11 as claimed: every idea of a response built from storage rows has a
\* non-empty theme and a non-empty analysis, in the bulk branch and in the
\* pass-through branch.
C11_ThemeAndAnalysisNonEmpty ==
    FromStorage =>
        \A j \in 1..Len(response.data) :
            response.data[j].theme # "" /\ ~IsEmptyText(response.data[j].analysis)

\* C11 as the code has it: every idea the bulk branch emits has a non-empty
\* theme and a non-empty analysis; the pass-through branch emits the rows as
\* stored, an empty theme or a null analysis included.
C11_BulkIdeasNonEmpty ==
    FromStorage =>
        /\ BulkBatch =>
               \A j \in 1..Len(response.data) :
                   response.data[j].theme # "" /\ ~IsEmptyText(response.data[j].analysis)
        /\ ~BulkBatch =>
               \A j \in 1..Len(response.data) :
                   \E i \in 1..Len(fetched.rows) : response.data[j] = fetched.rows[i]

\* a bulk row with a fragment that has a theme and no body has been parsed,
\* and ideas of its other fragments were emitted
C11_Witness ==
    /\ FromStorage
    /\ \E i \in 1..Len(fetched.rows) :
           /\ HasBulkMarkers(fetched.rows[i])
           /\ \E f \in 1..Len(fetched.rows[i].analysis) :
                  /\ HasThemeLine(fetched.rows[i].analysis[f])
                  /\ SpecifiedBody(fetched.rows[i].analysis[f]) = <<>>
    /\ response.data # <<>>

PairwiseDistinctIds ==
    \A a, b \in 1..Len(response.data) :
        a # b => response.data[a].id # response.data[b].id

BulkRowCount == Cardinality({i \in 1..Len(fetched.rows) : HasBulkMarkers(fetched.rows[i])})

\* C12 as claimed: the ideas of one response have pairwise distinct ids, also
\* when several bulk rows with neighbouring ids are parsed in one batch.
C12_DistinctIds == FromStorage => PairwiseDistinctIds

\* C12 as the code has it: the ideas parsed from one bulk row have pairwise
\* distinct ids, and so have the rows of a pass-through response; ideas of
\* different bulk rows of one batch can share an id.
C12_DistinctIdsWithinRow == (FromStorage /\ BulkRowCount <= 1) => PairwiseDistinctIds

\* one bulk row of the batch has yielded several ideas
C12_Witness ==
    /\ FromStorage
    /\ BulkRowCount = 1
    /\ Len(response.data) >= 2

\* C13: in every response built from storage rows the ideas are ordered by
\* created_at, non-increasing, in the bulk and in the pass-through branch.
C13_NewestFirst ==
    FromStorage =>
        \A j \in 1..(Len(response.data) - 1) :
            DateGetTime(response.data[j].created_at)
                >= DateGetTime(response.data[j + 1].created_at)

\* the preview route has passed two rows of different dates through
C13_Witness ==
    /\ FromStorage
    /\ response.source = "preview"
    /\ Len(response.data) = 2
    /\ response.data[1].created_at # response.data[2].created_at
    /\ ~BulkBatch

\* The normalization of the full feed: classification, parsing, sort.
Normalize(rows) == SortByCreatedAtDesc(ProcessedIdeas(rows))

RowOrders(rows) ==
    LET n == Len(rows)
        perms == {p \in [1..n -> 1..n] : \A i, j \in 1..n : i # j => p[i] # p[j]}
    IN  {[i \in 1..n |-> rows[p[i]]] : p \in perms}

Occurrences(s, x) == Cardinality({i \in 1..Len(s) : s[i] = x})
SameContent(s, t) ==
    /\ Len(s) = Len(t)
    /\ \A i \in 1..Len(s) : Occurrences(s, s[i]) = Occurrences(t, s[i])

DistinctDates(rows) ==
    \A i, j \in 1..Len(rows) : i # j => rows[i].created_at # rows[j].created_at

FullFeedFromStorage == response.status = 200 /\ response.source = "database"

\* C14 as claimed: the normalized list, content and order, is the same for
\* every permutation of the rows of the batch, rows of equal created_at
\* included.
C14_SameForEveryPermutation ==
    FullFeedFromStorage =>
        \A rows \in RowOrders(fetched.rows) : Normalize(rows) = response.data

\* C14 as the code has it: every permutation of the batch gives the same
\* ideas; it gives them in the same order when no two rows share a
\* created_at, and otherwise ideas of equal created_at follow the input order.
C14_SameContentForEveryPermutation ==
    FullFeedFromStorage =>
        \A rows \in RowOrders(fetched.rows) :
            /\ SameContent(Normalize(rows), response.data)
            /\ DistinctDates(fetched.rows) => Normalize(rows) = response.data

\* two rows of different dates, one of them a bulk row of several ideas
C14_Witness ==
    /\ FullFeedFromStorage
    /\ Len(fetched.rows) = 2
    /\ DistinctDates(fetched.rows)
    /\ BulkBatch
    /\ Len(response.data) >= 2

(***************************************************************************)
(* Claims about POST /api/chat (SpecChat, SpecBurst)                       *)
(***************************************************************************)
Finished(r) == requests[r].pc = "done"
Failed(r) == Finished(r) /\ requests[r].response.status >= 400

\* C15: a request of an identity whose limit is exhausted is answered 429
\* with resetTime and waitTime (the seconds up to resetTime, rounded up); its
\* body is never read, and it calls neither the search nor the completion
\* service.
C15_RateLimitedBeforeAnything ==
    \A r \in Requests :
        ~requests[r].rate.allowed =>
            /\ Finished(r)
            /\ requests[r].response.status = 429
            /\ requests[r].response.code = "RATE_LIMIT_EXCEEDED"
            /\ "details" \in requests[r].response.keys
            /\ requests[r].response.details.resetTime = requests[r].rate.resetTime
            /\ LET wait == requests[r].response.details.waitTime
                   left == requests[r].rate.resetTime - requests[r].at
               IN  wait * 1000 >= left /\ (wait - 1) * 1000 < left
            /\ requests[r].body = Unread
            /\ requests[r].searchCalls = 0
            /\ requests[r].llmCalls = 0

\* the eleventh request of a window, sent one millisecond into it
C15_Witness ==
    \E r \in Requests :
        /\ ~requests[r].rate.allowed
        /\ Finished(r)
        /\ requests[r].at = 1
        /\ requests[r].response.details.waitTime = 60

\* C16: a request answered 400 for its body (it does not parse, the predicate
\* rejects it) or for a conversation of more than 20 messages has called
\* neither the search nor the completion service.
C16_RejectedBeforeUpstream ==
    \A r \in Requests :
        (/\ Finished(r)
         /\ requests[r].response.status = 400
         /\ requests[r].response.code \in {NoCode, "MESSAGE_LIMIT_EXCEEDED"})
        => requests[r].searchCalls = 0 /\ requests[r].llmCalls = 0

\* C18 as claimed: every failure response carries an error string and a code.
C18_ErrorAndCode ==
    \A r \in Requests :
        Failed(r) =>
            /\ "error" \in requests[r].response.keys
            /\ requests[r].response.error # ""
            /\ "code" \in requests[r].response.keys

\* C18 as the code has it: every failure response carries an error string;
\* it carries a code when the handler passes one to apiError, which withAuth
\* (401, 500) and validateBody (400) do not.
C18_ErrorAlwaysCodeFromHandler ==
    \A r \in Requests :
        Failed(r) =>
            /\ "error" \in requests[r].response.keys
            /\ requests[r].response.error # ""
            /\ "code" \in requests[r].response.keys
                   <=> /\ requests[r].userId # "none"
                       /\ requests[r].body = Unread \/ requests[r].validation.success

\* a request rejected by validateBody, and so without a code
C18_Witness ==
    \E r \in Requests :
        /\ Failed(r)
        /\ requests[r].body.state = "json"
        /\ ~requests[r].validation.success
        /\ "code" \notin requests[r].response.keys

\* C19: validateBody returns in every case, and the handler goes on after it:
\* a body that does not parse gives {success: false} and a 400 response, a
\* body the predicate rejects gives {success: false} and a 400 response whose
\* details hold the body, and any other body gives {success: true, data} with
\* data the parsed body.
C19_ValidateBodyNeverThrows ==
    \A r \in Requests :
        requests[r].body # Unread =>
            LET body == requests[r].body
                validation == requests[r].validation
            IN  /\ body.state = "malformed" =>
                       /\ ~validation.success
                       /\ validation.response.status = 400
                /\ (body.state = "json" /\ ~isValidChatRequest(body.value)) =>
                       /\ ~validation.success
                       /\ validation.response.status = 400
                       /\ "details" \in validation.response.keys
                       /\ validation.response.details.receivedBody = body.value
                /\ (body.state = "json" /\ isValidChatRequest(body.value)) =>
                       /\ validation.success
                       /\ validation.data = body.value
                /\ ~validation.success =>
                       Finished(r) /\ requests[r].response = validation.response

\* a body with a message of a role that is none of the three has been rejected
C19_Witness ==
    \E r \in Requests :
        /\ requests[r].body.state = "json"
        /\ Len(requests[r].body.value.messages) = 1
        /\ requests[r].body.value.messages[1].role = "admin"
        /\ Finished(r)
        /\ requests[r].response.status = 400

\* The requests of identity u admitted in the window that is open.
AdmittedInFlight(u) ==
    {r \in Requests : /\ requests[r].userId = u
                      /\ requests[r].rate.allowed
                      /\ requests[r].at >= rlWindow[u].start}

\* C20 as claimed: checkRateLimit reads the entry in one step and writes it
\* in a later one, so that another handler can run between the two: the step
\* in which a handler gets its result leaves the store as it was.
C20_ReadThenWriteLater ==
    [][(\E r \in Requests : requests[r].pc = "auth" /\ requests'[r].userId # "none")
           => rateLimitStore' = rateLimitStore]_vars

\* C20 as the code has it: checkRateLimit runs without yielding, so the calls
\* of concurrent requests come one after the other: the stored count is the
\* number of requests admitted in the window, never more than maxRequests,
\* and no fewer than the admitted requests still being handled.
C20_CountIsAdmitted ==
    \A u \in ChatUsers :
        u \in DOMAIN rateLimitStore =>
            /\ rateLimitStore[u].count = rlWindow[u].allowed
            /\ rlWindow[u].allowed <= maxRequests
            /\ Cardinality(AdmittedInFlight(u)) <= rateLimitStore[u].count

\* two requests of one identity are being handled at the same time, both
\* admitted, at the ceiling
C20_Witness ==
    \E u \in ChatUsers :
        /\ u \in DOMAIN rateLimitStore
        /\ rateLimitStore[u].count = maxRequests
        /\ \A r \in Requests :
               requests[r].pc = "json" /\ requests[r].userId = u

(***************************************************************************)
(* Claims about the handlers' storage calls (SpecFetch)                    *)
(***************************************************************************)
RouteAnswered == httpResponse # NoHttpResponse

\* Every attempt of the handler's withRetry call has failed.
FaultPersisted ==
    /\ rpc = "thrown"
    /\ opLog # <<>>
    /\ \A i \in 1..Len(opLog) : ~opLog[i].ok

\* C17 as claimed: a fault that persists through the three attempts reaches
\* the caller as an error envelope, after the last attempt.
C17_FaultSurfaced ==
    (RouteAnswered /\ FaultPersisted) =>
        /\ httpResponse.status >= 500
        /\ "error" \in httpResponse.keys
        /\ Len(opLog) = RouteRetries

\* C17 as the code has it: the saved-ideas handler answers a fault that
\* persists through the three attempts with an error envelope (500); the
\* ideas feed absorbs it and answers 200 with its fallback list.  Either
\* answer comes after the third attempt has failed, never earlier.
C17_FaultSurfacedOrAbsorbed ==
    /\ (RouteAnswered /\ FaultPersisted) =>
           /\ Len(opLog) = RouteRetries
           /\ route = "ideas/saved" =>
                  httpResponse.status = 500 /\ "error" \in httpResponse.keys
           /\ route = "ideas/all" =>
                  /\ httpResponse.status = 200
                  /\ httpResponse.message = "Returned mock trading ideas"
    /\ (\E i \in 1..Len(opLog) : ~opLog[i].ok) /\ rpc \in {"operation", "backoff"}
           => ~RouteAnswered
    /\ (RouteAnswered /\ httpResponse.message # "Retrieved")
           => FaultPersisted /\ Len(opLog) = RouteRetries

\* the saved-ideas handler has answered 500 after three failed attempts
C17_Witness ==
    /\ RouteAnswered
    /\ FaultPersisted
    /\ route = "ideas/saved"
    /\ Len(opLog) = 3
    /\ httpResponse.status = 500

(***************************************************************************)
(* Claims about the rows of a bulk batch (SpecIdeas)                       *)
(***************************************************************************)
\* A fragment that starts (after blank lines) with its theme line and has a
\* narrative line under it.
FirstNonBlank(fragment) ==
    CHOOSE i \in 1..Len(fragment) :
        fragment[i].kind # "blank" /\ \A j \in 1..(i - 1) : fragment[j].kind = "blank"
WellFormed(fragment) ==
    /\ \E i \in 1..Len(fragment) : fragment[i].kind # "blank"
    /\ fragment[FirstNonBlank(fragment)].kind = "theme"
    /\ SpecifiedBody(fragment) # <<>>

\* The response holds the idea of fragment f (one-based) of the row.
HoldsIdeaOf(row, f) ==
    \E j \in 1..Len(response.data) :
        /\ response.data[j].id = row.id + (f - 1)
        /\ response.data[j].created_at = row.created_at
        /\ response.data[j].theme = row.analysis[f][FirstNonBlank(row.analysis[f])].text

HoldsEveryIdeaOf(row) ==
    \A f \in 1..Len(row.analysis) : WellFormed(row.analysis[f]) => HoldsIdeaOf(row, f)

BulkRows == {i \in 1..Len(fetched.rows) : HasBulkMarkers(fetched.rows[i])}
FirstBulkRow == CHOOSE i \in BulkRows : \A k \in BulkRows : i <= k

\* C21 as claimed: for a bulk batch the response holds the ideas of every
\* bulk-marked row, not only those of the first one.
C21_EveryBulkRowParsed ==
    (FromStorage /\ BulkBatch) =>
        \A i \in BulkRows : HoldsEveryIdeaOf(fetched.rows[i])

\* C21 as the code has it: the full feed holds the ideas of every bulk-marked
\* row of the batch; the preview route parses the first bulk-marked row only,
\* and every idea it returns is one of that row.
C21_EveryBulkRowParsedByFullFeed ==
    (FromStorage /\ BulkBatch) =>
        /\ response.source = "database" =>
               \A i \in BulkRows : HoldsEveryIdeaOf(fetched.rows[i])
        /\ response.source \in {"preview", "ideas"} =>
               \A j \in 1..Len(response.data) :
                   /\ response.data[j].created_at = fetched.rows[FirstBulkRow].created_at
                   /\ response.data[j].id - fetched.rows[FirstBulkRow].id
                          \in 0..(Len(fetched.rows[FirstBulkRow].analysis) - 1)

\* the full feed has answered from two bulk rows that both yield ideas
C21_Witness ==
    /\ FromStorage
    /\ response.source = "database"
    /\ Cardinality(BulkRows) = 2
    /\ \A i \in BulkRows : \E f \in 1..Len(fetched.rows[i].analysis) :
           WellFormed(fetched.rows[i].analysis[f])
    /\ Len(response.data) >= 3

\* C22: in a bulk batch a row without both markers contributes nothing: it is
\* neither passed through nor parsed, and every idea of the response comes
\* from a bulk-marked row.
C22_SingleRowsDropped ==
    (FromStorage /\ BulkBatch) =>
        /\ \A i \in 1..Len(fetched.rows) :
               ~HasBulkMarkers(fetched.rows[i]) =>
                   \A j \in 1..Len(response.data) :
                       /\ response.data[j] # fetched.rows[i]
                       /\ response.data[j].theme # fetched.rows[i].theme
        /\ \A j \in 1..Len(response.data) :
               \E i \in BulkRows :
                   /\ response.data[j].created_at = fetched.rows[i].created_at
                   /\ response.data[j].id - fetched.rows[i].id
                          \in 0..(Len(fetched.rows[i].analysis) - 1)

\* a batch of one bulk row and one single-idea row has given the ideas of
\* the bulk row only
C22_Witness ==
    /\ FromStorage
    /\ Len(fetched.rows) = 2
    /\ Cardinality(BulkRows) = 1
    /\ \E i \in 1..2 : fetched.rows[i].analysis = PlainAnalysis
    /\ Len(response.data) = 2

(***************************************************************************)
(* Claims about the ideas parsed from one bulk row (SpecIdeas)             *)
(***************************************************************************)
\* A block "IDEA k - theme" followed by body lines: the theme line comes
\* first, narrative lines follow, and nothing else but blank lines is there.
IsBlock(fragment) ==
    /\ WellFormed(fragment)
    /\ \A l \in 1..Len(fragment) :
           l # FirstNonBlank(fragment) => fragment[l].kind \in {"text", "blank"}

BodyLines(fragment) == SelectSeq(fragment, LAMBDA line : line.kind = "text")

NonSpace(g) == SelectSeq(g, LAMBDA t : ~IsSpace(t))

\* `result` is `group` with outer whitespace and one leading comma removed and
\* inner whitespace runs collapsed to one space.
IsCleaned(result, group) ==
    /\ \A k \in 1..Len(result) : IsSpace(result[k]) => result[k] = " "
    /\ \A k \in 1..(Len(result) - 1) : ~(result[k] = " " /\ result[k + 1] = " ")
    /\ result # <<>> => (result[1] # " " /\ result[Len(result)] # " ")
    /\ NonSpace(result) =
           (LET ns == NonSpace(group)
            IN  IF ns # <<>> /\ Head(ns) = "," THEN Tail(ns) ELSE ns)

\* N blocks and N ticker groups
IsBlockRow(row) ==
    /\ HasBulkMarkers(row)
    /\ row.tickers # NullText
    /\ Len(row.tickers) = Len(row.analysis)
    /\ \A f \in 1..Len(row.analysis) : IsBlock(row.analysis[f])

\* The response is what parsing the one bulk row of the batch has given.
ParsedFromOneRow ==
    /\ FromStorage
    /\ Cardinality(BulkRows) = 1
    /\ response.source # "database" => Len(fetched.rows[FirstBulkRow].analysis) <= PreviewSize

\* C23: a bulk row R, T of N blocks and N ticker groups yields N ideas in
\* block order, the i-th with id R + i, created_at T, the block's theme, the
\* block's body and the cleaned i-th ticker group.
C23_BlockRowParsed ==
    (ParsedFromOneRow /\ IsBlockRow(fetched.rows[FirstBulkRow])) =>
        LET row == fetched.rows[FirstBulkRow]
        IN  /\ Len(response.data) = Len(row.analysis)
            /\ \A f \in 1..Len(row.analysis) :
                   /\ response.data[f].id = row.id + (f - 1)
                   /\ response.data[f].created_at = row.created_at
                   /\ response.data[f].theme
                          = row.analysis[f][FirstNonBlank(row.analysis[f])].text
                   /\ response.data[f].analysis = <<BodyLines(row.analysis[f])>>
                   /\ Len(response.data[f].tickers) = 1
                   /\ IsCleaned(response.data[f].tickers[1], row.tickers[f])

\* The idea the response holds for fragment f of the row, if it holds one.
IdeasOfFragment(row, f) ==
    {j \in 1..Len(response.data) : response.data[j].id = row.id + (f - 1)}

\* C24: the body of every emitted idea is exactly the non-blank lines after
\* the theme line of its fragment that are no ticker lists; the theme line
\* and the lines before it are not in the body.
C24_BodyFollowsThemeLine ==
    ParsedFromOneRow =>
        LET row == fetched.rows[FirstBulkRow]
        IN  \A f \in 1..Len(row.analysis) : \A j \in IdeasOfFragment(row, f) :
                /\ HasThemeLine(row.analysis[f])
                /\ response.data[j].analysis = <<SpecifiedBody(row.analysis[f])>>
                /\ \A l \in 1..Len(response.data[j].analysis[1]) :
                       response.data[j].analysis[1][l].kind # "theme"

(***************************************************************************)
(* Claims about what checkRateLimit writes (SpecRate, SpecChat)            *)
(***************************************************************************)
\* C27: a call that returns allowed = false leaves the store as it was: the
\* identity's count and resetTime are the ones before the call, so the window
\* is not extended.
C27_RejectionWritesNothing ==
    (LastCallMade /\ ~rlResult.result.allowed) =>
        /\ rateLimitStore = rlResult.before
        /\ rlResult.result.resetTime = rateLimitStore[rlResult.userId].resetTime

\* a call has been rejected some time into the window
C27_Witness ==
    /\ LastCallMade
    /\ ~rlResult.result.allowed
    /\ rlResult.at > 0
    /\ rlResult.at < rateLimitStore[rlResult.userId].resetTime

\* The store with the entries of the one identity only.
OwnEntry(store, userId) == [x \in (DOMAIN store) \cap {userId} |-> store[x]]

\* C28: a call for identity A leaves the entry of every other identity as it
\* was; its result is the one it has with A's entry alone in the store, and
\* is decided by the number of A's own calls in A's window; no entry is ever
\* removed.
C28_IdentitiesIndependent ==
    /\ [](LastCallMade =>
            /\ \A b \in (DOMAIN rlResult.before) \ {rlResult.userId} :
                   /\ b \in DOMAIN rateLimitStore
                   /\ rateLimitStore[b] = rlResult.before[b]
            /\ rlResult.result =
                   CheckResult(OwnEntry(rlResult.before, rlResult.userId),
                               rlResult.userId, rlResult.at)
            /\ rlResult.result.allowed
                   <=> rlWindow[rlResult.userId].calls <= maxRequests)
    /\ [][DOMAIN rateLimitStore \subseteq DOMAIN rateLimitStore']_vars

\* both identities have an entry, one is at the ceiling and rejected, the
\* other one is not
C28_Witness ==
    /\ LastCallMade
    /\ DOMAIN rateLimitStore = Users
    /\ ~rlResult.result.allowed
    /\ \E b \in Users : rateLimitStore[b].count < maxRequests

\* C29: the slot is taken before the body is read: a request of an
\* authenticated caller that is being handled past the rate check, or has
\* been answered with anything but 429, has added one to the caller's count or
\* opened a window with count 1.
C29_SlotConsumedBeforeValidation ==
    \A r \in Requests :
        (/\ requests[r].userId # "none"
         /\ requests[r].pc \notin {"free", "auth"}
         /\ Finished(r) => requests[r].response.status # 429)
        => /\ rlResult.userId = requests[r].userId
           /\ rlResult.at = requests[r].at
           /\ rlResult.result.allowed
           /\ LET u == requests[r].userId
                  before == rlResult.before
              IN  rateLimitStore[u] =
                      IF u \notin DOMAIN before \/ requests[r].at > before[u].resetTime
                      THEN [count |-> 1, resetTime |-> requests[r].at + windowMs]
                      ELSE [count |-> before[u].count + 1,
                            resetTime |-> before[u].resetTime]

\* a request whose body was rejected with 400 has taken the caller's second
\* slot or a later one
C29_Witness ==
    \E r \in Requests :
        /\ Finished(r)
        /\ requests[r].userId # "none"
        /\ requests[r].response.status = 400
        /\ requests[r].body # Unread
        /\ rateLimitStore[requests[r].userId].count >= 2

(***************************************************************************)
(* Claims about POST /api/ideas/saved (SpecSave)                           *)
(***************************************************************************)
\* C25: whatever the interleaving of concurrent and retried requests of one
\* user for one idea, at most one 'saved' row of the pair exists, and a
\* request that starts when the row exists inserts nothing and, when it
\* answers with success, answers that the idea is already saved.
C25_AtMostOneSavedRow ==
    /\ interactions <= 1
    /\ \A r \in SaveRequests :
           saves[r].found >= 1 =>
               /\ saves[r].inserted = 0
               /\ (saves[r].pc = "done" /\ saves[r].status < 300)
                      => saves[r].message = "Idea is already saved"

(***************************************************************************)
(* Claims about POST /api/watchlist (SpecWatch)                            *)
(***************************************************************************)
\* C26: when two requests of the user that add two different tickers to the
\* existing watchlist have both answered with success, the stored watchlist
\* holds both tickers, whatever the interleaving of their reads and updates.
C26_NoAddLost ==
    \A r, q \in WatchRequests :
        (/\ adds[r].pc = "done" /\ adds[r].status = 200
         /\ adds[q].pc = "done" /\ adds[q].status = 200
         /\ adds[r].ticker # adds[q].ticker)
        => Includes(watchlist, adds[r].ticker) /\ Includes(watchlist, adds[q].ticker)

(***************************************************************************)
(* Claims about AuthProvider (SpecAuth)                                    *)
(***************************************************************************)
\* No handler of the provider is pending and the timeout is not armed.
NoHandlerPending ==
    /\ \A h \in Handlers : handlers[h].pc = "idle"
    /\ ~initTimeoutId

\* C30: once no handler is pending, profile is non-null only if user is
\* non-null, and loading is false; a profile fetch that completes after
\* sign-out does not bring a profile back for the signed-out user.
C30_ProfileOnlyWithUser ==
    NoHandlerPending =>
        /\ profile # NoProfile => user # NoUser
        /\ ~loading

====
